---------------------------- MODULE Spec2Model ----------------------------
(***************************************************************************)
(* Timer-driven simulators of the learn-kubernetes tutorial page.          *)
(*                                                                         *)
(* Every simulator is a React component whose state lives in useState /    *)
(* useRef cells and is advanced by setTimeout callbacks.  One behaviour of *)
(* this module follows ONE mounted simulator (variable sim); simulators    *)
(* share no state, so their behaviours are modelled side by side and not   *)
(* as a product.                                                           *)
(*                                                                         *)
(* Timers.  A pending setTimeout is a record with a field rem: the         *)
(* milliseconds left until it is due.  The event loop runs the pending     *)
(* timer that is due first (scheduling order breaks ties); it runs it      *)
(* lag milliseconds late, lag in 0..MaxLag, and every other pending timer  *)
(* ages by the time that passed.  Timers a callback schedules start from   *)
(* the moment the callback runs.  Only pending timers are kept: the id of  *)
(* a timer that already ran stays in the source's id arrays, where         *)
(* clearTimeout on it does nothing.                                        *)
(*                                                                         *)
(* Handlers.  A handler is invoked whenever the control that triggers it   *)
(* is enabled (its `disabled` attribute); where the handler repeats a      *)
(* guard itself (an early return), the invocation is modelled in every     *)
(* state and the early return is part of the action.                       *)
(***************************************************************************)
EXTENDS Integers, Sequences, FiniteSets, TLC

VARIABLES
    sim,    \* the simulator mounted in this behaviour
    op,     \* the handler or callback that ran last (observation only)
    ro,     \* RolloutSimulator: pods, phase, progress, log, timeoutsRef
    cpj,    \* ControlPlaneJourney: activeIndex, traversingIndex, isRunningAll,
            \* runAllRef, timeoutIds, isMounted
    np,     \* NetworkPolicySimulator: policyActive, sendingFrom, sendingTo,
            \* animating, tests, lastResult, timeoutIds, isMounted, testId
    sr,     \* ServiceRoutingSimulator: activeType, animating, activeLayerId,
            \* targetedPod, pulsingPod, runCount, abortRef, timeoutIds, isMounted;
            \* cancelled (observation only)
    cae,    \* ClusterAnatomyExplorer: selectedId, traceRunning, traceStepIndex,
            \* traceTimeoutsRef; mounted and restarted (observation only)
    dss,    \* DesiredStateSimulator: desired, pods, podCounter, timeoutIdsRef,
            \* reconcileTimerRef (the ref flag of a timer), isMounted,
            \* isReconciling; clicks (observation only)
    sch,    \* SchedulerPlayground: cpuReq, memReq, scheduled, scheduling,
            \* timeoutRef, isMounted
    ps,     \* progress store: store (currentSection, visitedSections,
            \* completedExercises), storage (the blob in localStorage);
            \* failed (observation only)
    tw,     \* two NetworkPolicySimulator instances on one page: inst (the
            \* state of each), testId (the `let` of the module), timers (the
            \* pending timers of both); last (observation only)
    hpa,    \* HPAConceptSimulator
    tf      \* TroubleshootingFlowSimulator

vars == <<sim, op, ro, cpj, np, sr, cae, dss, sch, ps, tw, hpa, tf>>

\* what the handlers of one simulator leave alone
Ro_others == <<sim, cpj, np, sr, cae, dss, sch, ps, tw, hpa, tf>>

Cpj_others == <<sim, ro, np, sr, cae, dss, sch, ps, tw, hpa, tf>>

Np_others == <<sim, ro, cpj, sr, cae, dss, sch, ps, tw, hpa, tf>>

Sr_others == <<sim, ro, cpj, np, cae, dss, sch, ps, tw, hpa, tf>>

Cae_others == <<sim, ro, cpj, np, sr, dss, sch, ps, tw, hpa, tf>>

Dss_others == <<sim, ro, cpj, np, sr, cae, sch, ps, tw, hpa, tf>>

Sch_others == <<sim, ro, cpj, np, sr, cae, dss, ps, tw, hpa, tf>>

Ps_others == <<sim, ro, cpj, np, sr, cae, dss, sch, tw, hpa, tf>>

Tw_others == <<sim, ro, cpj, np, sr, cae, dss, sch, ps, hpa, tf>>

Hpa_others == <<sim, ro, cpj, np, sr, cae, dss, sch, ps, tw, tf>>

Tf_others == <<sim, ro, cpj, np, sr, cae, dss, sch, ps, tw, hpa>>

---------------------------------------------------------------------------
(* Bounds *)

\* a timer callback of the RolloutSimulator runs at most MaxLag ms after it is
\* due (the other simulators' timers do not race within milliseconds)
MaxLag == 1

Lags == 0..MaxLag

\* a handler schedules no further timer while this many timers of the
\* ControlPlaneJourney are pending
Cpj_MaxTimers == 1

\* sendTraffic is not invoked once this many tests have been recorded
Np_MaxTests == 3

\* handleSendRequest is not invoked once runCount has reached this
Sr_MaxRuns == 1

\* a handler schedules no further timer while this many timers of the
\* ServiceRoutingSimulator are pending
Sr_MaxTimers == 2

\* the user of the DesiredStateSimulator raises desired no further than this
Dss_MaxDesired == 4

\* the DesiredStateSimulator is followed until it has created this many pods
Dss_MaxPodCounter == 4

\* clicks of the user of the DesiredStateSimulator
Dss_MaxClicks == 1

\* sendTraffic is not invoked on either of two instances once they have
\* recorded this many tests together
Tw_MaxTests == 2

\* evaluations of the autoscaler that are followed
Hpa_MaxEvents == 7

\* a store hydrated from a blob that some other writer left in localStorage
\* is driven with the section ids 0..Ps_MaxLoadId
Ps_MaxLoadId == 2

---------------------------------------------------------------------------
(* The event loop's timer queue *)

Max(a, b) == IF a >= b THEN a ELSE b

Min(a, b) == IF a <= b THEN a ELSE b

RemoveAt(s, i) == SubSeq(s, 1, i - 1) \o SubSeq(s, i + 1, Len(s))

\* index of the pending timer that runs next: the earliest due time, and
\* among equal due times the one scheduled first
NextDue(ts) ==
    CHOOSE i \in DOMAIN ts :
        /\ \A j \in DOMAIN ts : ts[i].rem <= ts[j].rem
        /\ \A j \in 1..(i - 1) : ts[j].rem > ts[i].rem

\* time that passes until timer i runs, lag ms late
Passed(ts, i, lag) == Max(ts[i].rem, 0) + lag

Age(ts, e) == [j \in DOMAIN ts |-> [ts[j] EXCEPT !.rem = @ - e]]

\* the queue once timer i has run lag ms late: i is gone, the others aged
AfterRun(ts, i, lag) == Age(RemoveAt(ts, i), Passed(ts, i, lag))

\* setTimeout(fn, delay): the handle joins the pending timers
SetTimeout(ts, t) == Append(ts, t)

\* findIndex: the first index satisfying the test, 0 when there is none
FindIndex(s, Test(_)) ==
    IF \E i \in DOMAIN s : Test(s[i])
    THEN CHOOSE i \in DOMAIN s : Test(s[i]) /\ \A j \in 1..(i - 1) : ~Test(s[j])
    ELSE 0

---------------------------------------------------------------------------
(* RolloutSimulator *)

Ro_STEP_DURATION == 1400

Ro_totalPods == 4

\* a cycle started every STEP_DURATION, before the previous one has finished
Ro_baseDelay_tooShort(i) == i * Ro_STEP_DURATION

\* baseDelay = i * STEP_DURATION * 2.2: 0, 3080.0000000000005,
\* 6160.000000000001, 9240 as doubles; setTimeout truncates to whole ms
Ro_baseDelay(i) == (i * Ro_STEP_DURATION * 22) \div 10

\* STEP_DURATION * 0.7 is 979.9999999999999 as a double; setTimeout
\* truncates the delay to 979 ms
Ro_delayD == (Ro_STEP_DURATION * 7 - 1) \div 10

\* STEP_DURATION * 0.5
Ro_delayC == Ro_STEP_DURATION \div 2

Ro_delayDone == 400

Ro_buildInitialPods ==
    [i \in 1..4 |-> [id |-> <<"v1", i>>, version |-> "v1", status |-> "Running"]]

Ro_Init ==
    ro = [pods |-> Ro_buildInitialPods, phase |-> "idle", progress |-> 0,
          log |-> <<>>, timeoutsRef |-> <<>>, mounted |-> TRUE]

Ro_isRolling == ro.phase \in {"rolling", "rolling-back"}

Ro_canDeploy == ro.phase \in {"idle", "rolled-back"}

Ro_canRollback == ro.phase = "complete"

\* Math.round((n / totalPods) * 100) for n in 0..4
Ro_percent(n) == (n * 100) \div Ro_totalPods

\* the for loop of startRollout / startRollback: one Phase A timer per pod
Ro_cycleTimers(dir) ==
    [i \in 1..Ro_totalPods |->
        [kind |-> "A", dir |-> dir, podIndex |-> i - 1, newPodId |-> <<>>,
         rem |-> Ro_baseDelay(i - 1)]]

Ro_startRollout ==
    /\ sim = "rollout" /\ ro.mounted
    /\ Ro_canDeploy /\ ~Ro_isRolling
    /\ ro' = [ro EXCEPT !.timeoutsRef = Ro_cycleTimers("rollout"),
                        !.phase = "rolling",
                        !.progress = 0,
                        !.pods = Ro_buildInitialPods,
                        !.log = <<"started", "strategy">>]
    /\ op' = "startRollout"
    /\ UNCHANGED Ro_others

Ro_startRollback ==
    /\ sim = "rollout" /\ ro.mounted
    /\ Ro_canRollback /\ ~Ro_isRolling
    /\ ro' = [ro EXCEPT !.timeoutsRef = Ro_cycleTimers("rollback"),
                        !.phase = "rolling-back",
                        !.progress = 100,
                        !.log = <<"started", "strategy">>]
    /\ op' = "startRollback"
    /\ UNCHANGED Ro_others

Ro_reset ==
    /\ sim = "rollout" /\ ro.mounted
    /\ ~Ro_isRolling
    /\ ro' = [ro EXCEPT !.timeoutsRef = <<>>,
                        !.phase = "idle",
                        !.progress = 0,
                        !.log = <<>>,
                        !.pods = Ro_buildInitialPods]
    /\ op' = "reset"
    /\ UNCHANGED Ro_others

\* a teardown that clears no timer
Ro_unmount_keepsTimers ==
    /\ sim = "rollout" /\ ro.mounted
    /\ ro' = [ro EXCEPT !.mounted = FALSE]
    /\ op' = "unmount"
    /\ UNCHANGED Ro_others

\* useEffect cleanup: timeoutsRef.current.forEach(clearTimeout)
Ro_unmount ==
    /\ sim = "rollout" /\ ro.mounted
    /\ ro' = [ro EXCEPT !.timeoutsRef = <<>>, !.mounted = FALSE]
    /\ op' = "unmount"
    /\ UNCHANGED Ro_others

\* version the cycle creates, version it retires, tag of the new pod's id
Ro_newVersion(dir) == IF dir = "rollout" THEN "v2" ELSE "v1"

Ro_oldVersion(dir) == IF dir = "rollout" THEN "v1" ELSE "v2"

Ro_newIdTag(dir) == IF dir = "rollout" THEN "v2" ELSE "v1-rb"

\* Phase A: create the new pod (surge +1), then schedule Phase B
Ro_phaseA(t, rest) ==
    LET newPodId == <<Ro_newIdTag(t.dir), t.podIndex + 1>> IN
    [ro EXCEPT !.log = Append(@, "creating"),
               !.pods = Append(@, [id |-> newPodId,
                                   version |-> Ro_newVersion(t.dir),
                                   status |-> "Creating"]),
               !.timeoutsRef = SetTimeout(rest,
                   [t EXCEPT !.kind = "B", !.newPodId = newPodId,
                             !.rem = Ro_STEP_DURATION])]

\* a Phase B that goes on to Phase C with the new pod still Creating
Ro_phaseB_staysCreating(t, rest) ==
    [ro EXCEPT !.log = Append(@, "ready"),
               !.timeoutsRef = SetTimeout(rest,
                   [t EXCEPT !.kind = "C", !.rem = Ro_delayC])]

\* Phase B: the new pod becomes Ready, then schedule Phase C
Ro_phaseB(t, rest) ==
    [ro EXCEPT !.log = Append(@, "ready"),
               !.pods = [k \in DOMAIN @ |->
                            IF @[k].id = t.newPodId
                            THEN [@[k] EXCEPT !.status = "Running"]
                            ELSE @[k]],
               !.timeoutsRef = SetTimeout(rest,
                   [t EXCEPT !.kind = "C", !.rem = Ro_delayC])]

\* Phase C: mark the first Running old pod Terminating, then schedule Phase D
Ro_phaseC(t, rest) ==
    LET IsOldRunning(p) == p.version = Ro_oldVersion(t.dir) /\ p.status = "Running"
        idx == FindIndex(ro.pods, IsOldRunning)
        timers == SetTimeout(rest, [t EXCEPT !.kind = "D", !.rem = Ro_delayD])
    IN  IF idx = 0
        THEN [ro EXCEPT !.timeoutsRef = timers]
        ELSE [ro EXCEPT !.log = Append(@, "terminating"),
                        !.pods[idx].status = "Terminating",
                        !.timeoutsRef = timers]

\* Phase D: remove the first Terminating old pod, set the progress, and
\* after the last cycle schedule the completion
Ro_phaseD(t, rest) ==
    LET IsOldTerminating(p) ==
            p.version = Ro_oldVersion(t.dir) /\ p.status = "Terminating"
        idx == FindIndex(ro.pods, IsOldTerminating)
        completedCount == t.podIndex + 1
        progress == IF t.dir = "rollout"
                    THEN Ro_percent(completedCount)
                    ELSE Ro_percent(Ro_totalPods - completedCount)
        timers == IF completedCount = Ro_totalPods
                  THEN SetTimeout(rest, [t EXCEPT !.kind = "Done",
                                                  !.rem = Ro_delayDone])
                  ELSE rest
    IN  IF idx = 0
        THEN [ro EXCEPT !.progress = progress, !.timeoutsRef = timers]
        ELSE [ro EXCEPT !.log = Append(@, "deleted"),
                        !.pods = RemoveAt(@, idx),
                        !.progress = progress,
                        !.timeoutsRef = timers]

\* the completion callback
Ro_phaseDone(t, rest) ==
    [ro EXCEPT !.phase = IF t.dir = "rollout" THEN "complete" ELSE "rolled-back",
               !.log = Append(@, "complete"),
               !.timeoutsRef = rest]

\* the timer that runs next, and whether it is a callback of the given phase
Ro_next == ro.timeoutsRef[NextDue(ro.timeoutsRef)]

Ro_due(kind) == ro.timeoutsRef # <<>> /\ Ro_next.kind = kind

\* the other pending timers once Ro_next has run lag ms late
Ro_rest(lag) == AfterRun(ro.timeoutsRef, NextDue(ro.timeoutsRef), lag)

Ro_timerA ==
    /\ sim = "rollout" /\ Ro_due("A")
    /\ \E lag \in Lags : ro' = Ro_phaseA(Ro_next, Ro_rest(lag))
    /\ op' = "timer"
    /\ UNCHANGED Ro_others

Ro_timerB ==
    /\ sim = "rollout" /\ Ro_due("B")
    /\ \E lag \in Lags : ro' = Ro_phaseB(Ro_next, Ro_rest(lag))
    /\ op' = "timer"
    /\ UNCHANGED Ro_others

Ro_timerC ==
    /\ sim = "rollout" /\ Ro_due("C")
    /\ \E lag \in Lags : ro' = Ro_phaseC(Ro_next, Ro_rest(lag))
    /\ op' = "timer"
    /\ UNCHANGED Ro_others

Ro_timerD ==
    /\ sim = "rollout" /\ Ro_due("D")
    /\ \E lag \in Lags : ro' = Ro_phaseD(Ro_next, Ro_rest(lag))
    /\ op' = "timer"
    /\ UNCHANGED Ro_others

Ro_timerDone ==
    /\ sim = "rollout" /\ Ro_due("Done")
    /\ \E lag \in Lags : ro' = Ro_phaseDone(Ro_next, Ro_rest(lag))
    /\ op' = "timer"
    /\ UNCHANGED Ro_others

NextRollout ==
    \/ Ro_startRollout
    \/ Ro_startRollback
    \/ Ro_reset
    \/ Ro_unmount
    \/ Ro_timerA
    \/ Ro_timerB
    \/ Ro_timerC
    \/ Ro_timerD
    \/ Ro_timerDone

---------------------------------------------------------------------------
(* ControlPlaneJourney *)

\* STEPS.length
Cpj_STEPS == 6

\* traversingIndex = null
NoIndex == -1

Cpj_advanceDelay == 480

Cpj_pauseDelay == 1000

\* the user acts this long after the previous event
Cpj_WaitSteps == {240}

Cpj_Init ==
    cpj = [activeIndex |-> 0, traversingIndex |-> NoIndex, isRunningAll |-> FALSE,
           runAllRef |-> FALSE, timeoutIds |-> <<>>, isMounted |-> TRUE]

Cpj_isFinished == cpj.activeIndex >= Cpj_STEPS - 1

\* a timer of the journey: an advanceTo callback with its nextIndex, or a
\* sleep of runAll with the loop's local variable current
Cpj_timeout(kind, arg, delay) == [kind |-> kind, arg |-> arg, rem |-> delay]

Cpj_advanceTo(nextIndex) ==
    IF nextIndex <= cpj.activeIndex \/ nextIndex >= Cpj_STEPS
    THEN cpj
    ELSE [cpj EXCEPT !.traversingIndex = nextIndex - 1,
                     !.timeoutIds = SetTimeout(@,
                         Cpj_timeout("advance", nextIndex, Cpj_advanceDelay))]

\* Next Step button: disabled={isFinished || isRunningAll}
Cpj_handleNext ==
    /\ sim = "cpj" /\ cpj.isMounted
    /\ ~cpj.isRunningAll
    /\ Len(cpj.timeoutIds) < Cpj_MaxTimers
    /\ cpj' = IF ~Cpj_isFinished THEN Cpj_advanceTo(cpj.activeIndex + 1) ELSE cpj
    /\ op' = "handleNext"
    /\ UNCHANGED Cpj_others

\* a Reset that leaves the timers of the journey pending
Cpj_handleReset_keepsTimers ==
    /\ sim = "cpj" /\ cpj.isMounted
    /\ cpj' = [cpj EXCEPT !.runAllRef = FALSE,
                          !.isRunningAll = FALSE,
                          !.traversingIndex = NoIndex,
                          !.activeIndex = 0]
    /\ op' = "handleReset"
    /\ UNCHANGED Cpj_others

Cpj_handleReset ==
    /\ sim = "cpj" /\ cpj.isMounted
    /\ cpj' = [cpj EXCEPT !.runAllRef = FALSE,
                          !.isRunningAll = FALSE,
                          !.traversingIndex = NoIndex,
                          !.activeIndex = 0,
                          !.timeoutIds = <<>>]
    /\ op' = "handleReset"
    /\ UNCHANGED Cpj_others

Cpj_unmount ==
    /\ sim = "cpj" /\ cpj.isMounted
    /\ cpj' = [cpj EXCEPT !.isMounted = FALSE,
                          !.timeoutIds = <<>>,
                          !.runAllRef = FALSE]
    /\ op' = "unmount"
    /\ UNCHANGED Cpj_others

\* runAll from the test of its while loop, with local variable current, up to
\* the first await of the body or to the end of the function
Cpj_runAllLoop(st, current, timers) ==
    IF current < Cpj_STEPS - 1 /\ st.runAllRef
    THEN [st EXCEPT !.traversingIndex = current,
                    !.timeoutIds = SetTimeout(timers,
                        Cpj_timeout("sleep480", current, Cpj_advanceDelay))]
    ELSE [st EXCEPT !.runAllRef = FALSE,
                    !.isRunningAll = FALSE,
                    !.timeoutIds = timers]

Cpj_runAll ==
    /\ sim = "cpj" /\ cpj.isMounted
    /\ cpj.isRunningAll \/ Len(cpj.timeoutIds) < Cpj_MaxTimers
    /\ cpj' = IF cpj.isRunningAll
              THEN cpj
              ELSE Cpj_runAllLoop([cpj EXCEPT !.runAllRef = TRUE,
                                              !.isRunningAll = TRUE],
                                  cpj.activeIndex, cpj.timeoutIds)
    /\ op' = "runAll"
    /\ UNCHANGED Cpj_others

\* a click that moves the cursor to whatever step was clicked
Cpj_stepClick_anyStep(i) ==
    /\ sim = "cpj" /\ cpj.isMounted
    /\ cpj' = [cpj EXCEPT !.runAllRef = FALSE,
                          !.isRunningAll = FALSE,
                          !.traversingIndex = NoIndex,
                          !.activeIndex = i]
    /\ op' = IF i <= cpj.activeIndex THEN "jumpBack" ELSE "stepClick"
    /\ UNCHANGED Cpj_others

\* PipelineNode onClick on step i
Cpj_stepClick(i) ==
    /\ sim = "cpj" /\ cpj.isMounted
    /\ cpj' = IF i <= cpj.activeIndex
              THEN [cpj EXCEPT !.runAllRef = FALSE,
                               !.isRunningAll = FALSE,
                               !.traversingIndex = NoIndex,
                               !.activeIndex = i]
              ELSE cpj
    /\ op' = IF i <= cpj.activeIndex THEN "jumpBack" ELSE "stepClick"
    /\ UNCHANGED Cpj_others

Cpj_next == cpj.timeoutIds[NextDue(cpj.timeoutIds)]

Cpj_due(kind) == cpj.timeoutIds # <<>> /\ Cpj_next.kind = kind

\* the other pending timers once Cpj_next has run
Cpj_rest == AfterRun(cpj.timeoutIds, NextDue(cpj.timeoutIds), 0)

\* the callback advanceTo scheduled
Cpj_advanceTimer ==
    /\ sim = "cpj" /\ Cpj_due("advance")
    /\ cpj' = IF ~cpj.isMounted
               THEN [cpj EXCEPT !.timeoutIds = Cpj_rest]
               ELSE [cpj EXCEPT !.traversingIndex = NoIndex,
                                !.activeIndex = Cpj_next.arg,
                                !.timeoutIds = Cpj_rest]
    /\ op' = "timer"
    /\ UNCHANGED Cpj_others

\* runAll resumes from `await sleep(480)`
Cpj_sleep480Timer ==
    /\ sim = "cpj" /\ Cpj_due("sleep480")
    /\ LET current == Cpj_next.arg
            next == current + 1
        IN  cpj' = IF ~cpj.runAllRef \/ ~cpj.isMounted
                   THEN [cpj EXCEPT !.runAllRef = FALSE,
                                    !.isRunningAll = FALSE,
                                    !.timeoutIds = Cpj_rest]
                   ELSE [cpj EXCEPT !.traversingIndex = NoIndex,
                                    !.activeIndex = next,
                                    !.timeoutIds = SetTimeout(Cpj_rest,
                                        Cpj_timeout("sleep1000", next, Cpj_pauseDelay))]
    /\ op' = "timer"
    /\ UNCHANGED Cpj_others

\* runAll resumes from `await sleep(1000)`
Cpj_sleep1000Timer ==
    /\ sim = "cpj" /\ Cpj_due("sleep1000")
    /\ cpj' = Cpj_runAllLoop(cpj, Cpj_next.arg, Cpj_rest)
    /\ op' = "timer"
    /\ UNCHANGED Cpj_others

\* time passes without a timer becoming overdue
Cpj_wait ==
    /\ sim = "cpj" /\ cpj.timeoutIds # <<>>
    /\ \E d \in Cpj_WaitSteps :
        /\ d <= Cpj_next.rem
        /\ cpj' = [cpj EXCEPT !.timeoutIds = Age(@, d)]
    /\ UNCHANGED <<op, Cpj_others>>

NextCpj ==
    \/ Cpj_handleNext
    \/ Cpj_handleReset
    \/ Cpj_unmount
    \/ Cpj_runAll
    \/ \E i \in 0..(Cpj_STEPS - 1) : Cpj_stepClick(i)
    \/ Cpj_advanceTimer
    \/ Cpj_sleep480Timer
    \/ Cpj_sleep1000Timer
    \/ Cpj_wait

---------------------------------------------------------------------------
(* NetworkPolicySimulator *)

Np_PODS == {"frontend", "api", "database"}

Np_delay == 800

Np_WaitSteps == {400}

\* lastResult = null
Np_noResult == [allowed |-> FALSE, from |-> "null", to |-> "null"]

Np_Init ==
    np = [policyActive |-> FALSE, sendingFrom |-> "null", sendingTo |-> "null",
          animating |-> FALSE, tests |-> <<>>, lastResult |-> Np_noResult,
          timeoutIds |-> <<>>, isMounted |-> TRUE, testId |-> 0]

\* a decider that denies every source its way to the database
Np_isBlocked_anySource(policyActive, from, to) == policyActive /\ to = "database"

Np_isBlocked(policyActive, from, to) ==
    IF ~policyActive THEN FALSE
    ELSE IF to = "database" /\ from # "api" THEN TRUE
    ELSE FALSE

\* [entry, ...prev].slice(0, 8)
Np_slice8(s) == SubSeq(s, 1, Min(Len(s), 8))

\* sendTraffic returns at once for a self-connection
Np_ignored_selfOnly(from, to) == from = to

\* if (animating || from === to) return
Np_ignored(from, to) == np.animating \/ from = to

\* the timer's callback closes over isBlocked of the render in which
\* sendTraffic ran: policyActive is the value of that render
Np_sendTraffic(from, to) ==
    /\ sim = "np" /\ np.isMounted
    /\ Np_ignored(from, to) \/ np.testId < Np_MaxTests
    /\ np' = IF Np_ignored(from, to)
             THEN np
             ELSE [np EXCEPT !.animating = TRUE,
                             !.sendingFrom = from,
                             !.sendingTo = to,
                             !.lastResult = Np_noResult,
                             !.timeoutIds = SetTimeout(@,
                                 [kind |-> "result", from |-> from, to |-> to,
                                  policyActive |-> np.policyActive,
                                  rem |-> Np_delay])]
    /\ op' = "sendTraffic"
    /\ UNCHANGED Np_others

Np_next == np.timeoutIds[NextDue(np.timeoutIds)]

Np_rest == AfterRun(np.timeoutIds, NextDue(np.timeoutIds), 0)

Np_resultTimer ==
    /\ sim = "np" /\ np.timeoutIds # <<>>
    /\ LET t == Np_next
           allowed == ~Np_isBlocked(t.policyActive, t.from, t.to)
           testId == np.testId + 1
       IN  np' = IF ~np.isMounted
                 THEN [np EXCEPT !.timeoutIds = Np_rest]
                 ELSE [np EXCEPT !.testId = testId,
                                 !.tests = Np_slice8(
                                     <<[id |-> testId, from |-> t.from,
                                        to |-> t.to, allowed |-> allowed]>> \o @),
                                 !.lastResult = [allowed |-> allowed,
                                                 from |-> t.from, to |-> t.to],
                                 !.sendingFrom = "null",
                                 !.sendingTo = "null",
                                 !.animating = FALSE,
                                 !.timeoutIds = Np_rest]
    /\ op' = "timer"
    /\ UNCHANGED Np_others

\* the toggle button
Np_togglePolicy ==
    /\ sim = "np" /\ np.isMounted
    /\ np' = [np EXCEPT !.policyActive = ~@, !.lastResult = Np_noResult]
    /\ op' = "togglePolicy"
    /\ UNCHANGED Np_others

Np_unmount ==
    /\ sim = "np" /\ np.isMounted
    /\ np' = [np EXCEPT !.isMounted = FALSE, !.timeoutIds = <<>>]
    /\ op' = "unmount"
    /\ UNCHANGED Np_others

Np_wait ==
    /\ sim = "np" /\ np.timeoutIds # <<>>
    /\ \E d \in Np_WaitSteps :
        /\ d <= Np_next.rem
        /\ np' = [np EXCEPT !.timeoutIds = Age(@, d)]
    /\ UNCHANGED <<op, Np_others>>

NextNp ==
    \/ \E from \in Np_PODS, to \in Np_PODS : Np_sendTraffic(from, to)
    \/ Np_resultTimer
    \/ Np_togglePolicy
    \/ Np_unmount
    \/ Np_wait

---------------------------------------------------------------------------
(* ServiceRoutingSimulator *)

Sr_SERVICE_TYPES == {"ClusterIP", "NodePort", "LoadBalancer"}

Sr_POD_TARGETS == <<"pod-a", "pod-b", "pod-c">>

\* SERVICE_CONFIGS[t].path without the pods
Sr_layerPath(t) ==
    CASE t = "ClusterIP" -> <<"service">>
      [] t = "NodePort" -> <<"node", "service">>
      [] t = "LoadBalancer" -> <<"internet", "loadbalancer", "node", "service">>

\* SERVICE_CONFIGS[t].layers.includes('pods')
Sr_isPodsVisible(t) == t \in Sr_SERVICE_TYPES

Sr_layerDelay == 500

Sr_gapDelay == 120

Sr_podsDelay == 300

Sr_pulseDelay == 2000

Sr_abortResetDelay == 50

Sr_WaitSteps == {250}

\* cancelled is an observation: the number of the last request that was sent
\* before the latest tab switch (0: none)
Sr_Init ==
    sr = [activeType |-> "ClusterIP", animating |-> FALSE, activeLayerId |-> "null",
          targetedPod |-> "null", pulsingPod |-> "null", runCount |-> 0,
          abortRef |-> FALSE, timeoutIds |-> <<>>, isMounted |-> TRUE,
          cancelled |-> 0]

\* a timer of the simulator.  A delay(ms) of handleSendRequest resumes the
\* loop of request number run, which closed over the tab (type) and the pod
\* target of its render and stands at layer k of its path; a callback that
\* reads none of them carries "-" and 0
Sr_timeout(kind, run, type, k, delay) ==
    [kind |-> kind, run |-> run, type |-> type, k |-> k, rem |-> delay]

\* handleSendRequest from `if (!abortRef.current) setAnimating(false)`
Sr_finish(st) ==
    IF ~st.abortRef THEN [st EXCEPT !.animating = FALSE] ELSE st

\* handleSendRequest from the end of its for loop to the next await
Sr_afterLoop(st, run, type, timers) ==
    IF ~st.abortRef /\ Sr_isPodsVisible(type)
    THEN [st EXCEPT !.activeLayerId = "pods",
                    !.timeoutIds = SetTimeout(timers,
                        Sr_timeout("delay300", run, "-", 0, Sr_podsDelay))]
    ELSE Sr_finish([st EXCEPT !.timeoutIds = timers])

\* handleSendRequest from the head of the for loop at layer k to the next await
Sr_loop(st, run, type, k, timers) ==
    IF k > Len(Sr_layerPath(type)) \/ st.abortRef
    THEN Sr_afterLoop(st, run, type, timers)
    ELSE [st EXCEPT !.activeLayerId = Sr_layerPath(type)[k],
                    !.timeoutIds = SetTimeout(timers,
                        Sr_timeout("delay500", run, type, k, Sr_layerDelay))]

Sr_handleSendRequest ==
    /\ sim = "sr" /\ sr.isMounted
    /\ sr.animating \/ (sr.runCount < Sr_MaxRuns /\ Len(sr.timeoutIds) < Sr_MaxTimers)
    /\ sr' = IF sr.animating
             THEN sr
             ELSE Sr_loop([sr EXCEPT !.abortRef = FALSE,
                                     !.animating = TRUE,
                                     !.targetedPod = "null",
                                     !.pulsingPod = "null",
                                     !.runCount = @ + 1],
                          sr.runCount + 1, sr.activeType, 1, sr.timeoutIds)
    /\ op' = "handleSendRequest"
    /\ UNCHANGED Sr_others

\* the tab selector; the effect on [activeType] clears targetedPod and
\* pulsingPod once more
Sr_handleTypeChange(t) ==
    /\ sim = "sr" /\ sr.isMounted
    /\ Len(sr.timeoutIds) < Sr_MaxTimers
    /\ sr' = [sr EXCEPT !.abortRef = TRUE,
                        !.animating = FALSE,
                        !.activeLayerId = "null",
                        !.targetedPod = "null",
                        !.pulsingPod = "null",
                        !.activeType = t,
                        !.timeoutIds = SetTimeout(@,
                            Sr_timeout("abortReset", 0, "-", 0, Sr_abortResetDelay)),
                        !.cancelled = sr.runCount]
    /\ op' = "handleTypeChange"
    /\ UNCHANGED Sr_others

Sr_unmount ==
    /\ sim = "sr" /\ sr.isMounted
    /\ sr' = [sr EXCEPT !.isMounted = FALSE,
                        !.timeoutIds = <<>>,
                        !.abortRef = TRUE]
    /\ op' = "unmount"
    /\ UNCHANGED Sr_others

Sr_next == sr.timeoutIds[NextDue(sr.timeoutIds)]

Sr_due(kind) == sr.timeoutIds # <<>> /\ Sr_next.kind = kind

Sr_rest == AfterRun(sr.timeoutIds, NextDue(sr.timeoutIds), 0)

\* the callback handleTypeChange scheduled
Sr_abortResetTimer ==
    /\ sim = "sr" /\ Sr_due("abortReset")
    /\ sr' = IF ~sr.isMounted
             THEN [sr EXCEPT !.timeoutIds = Sr_rest]
             ELSE [sr EXCEPT !.abortRef = FALSE, !.timeoutIds = Sr_rest]
    /\ op' = "timer"
    /\ UNCHANGED Sr_others

\* handleSendRequest resumes from `await delay(500)`
Sr_delay500Timer ==
    /\ sim = "sr" /\ Sr_due("delay500")
    /\ LET t == Sr_next IN
           sr' = IF sr.abortRef
                 THEN Sr_afterLoop(sr, t.run, t.type, Sr_rest)
                 ELSE [sr EXCEPT !.activeLayerId = "null",
                                 !.timeoutIds = SetTimeout(Sr_rest,
                                     Sr_timeout("delay120", t.run, t.type, t.k,
                                                Sr_gapDelay))]
    /\ op' = "timer"
    /\ UNCHANGED Sr_others

\* handleSendRequest resumes from `await delay(120)`
Sr_delay120Timer ==
    /\ sim = "sr" /\ Sr_due("delay120")
    /\ LET t == Sr_next IN
        sr' = Sr_loop(sr, t.run, t.type, t.k + 1, Sr_rest)
    /\ op' = "timer"
    /\ UNCHANGED Sr_others

\* handleSendRequest resumes from `await delay(300)`
Sr_delay300Timer ==
    /\ sim = "sr" /\ Sr_due("delay300")
    /\ LET t == Sr_next
           podTarget == Sr_POD_TARGETS[((t.run - 1) % 3) + 1]
       IN  sr' = IF ~sr.abortRef
                 THEN Sr_finish(
                        [sr EXCEPT !.activeLayerId = "null",
                                   !.targetedPod = podTarget,
                                   !.pulsingPod = podTarget,
                                   !.timeoutIds = SetTimeout(Sr_rest,
                                       Sr_timeout("pulse", t.run, "-", 0,
                                                  Sr_pulseDelay))])
                 ELSE Sr_finish([sr EXCEPT !.timeoutIds = Sr_rest])
    /\ op' = "timer"
    /\ UNCHANGED Sr_others

\* the callback that stops the pulsing
Sr_pulseTimer ==
    /\ sim = "sr" /\ Sr_due("pulse")
    /\ LET st == [sr EXCEPT !.timeoutIds = Sr_rest] IN
        sr' = IF sr.isMounted /\ ~sr.abortRef
              THEN [st EXCEPT !.pulsingPod = "null"]
              ELSE st
    /\ op' = "timer"
    /\ UNCHANGED Sr_others

Sr_wait ==
    /\ sim = "sr" /\ sr.timeoutIds # <<>>
    /\ \E d \in Sr_WaitSteps :
        /\ d <= Sr_next.rem
        /\ sr' = [sr EXCEPT !.timeoutIds = Age(@, d)]
    /\ UNCHANGED <<op, Sr_others>>

NextSr ==
    \/ Sr_handleSendRequest
    \/ \E t \in Sr_SERVICE_TYPES : Sr_handleTypeChange(t)
    \/ Sr_unmount
    \/ Sr_abortResetTimer
    \/ Sr_delay500Timer
    \/ Sr_delay120Timer
    \/ Sr_delay300Timer
    \/ Sr_pulseTimer
    \/ Sr_wait

---------------------------------------------------------------------------
(* ClusterAnatomyExplorer *)

\* TRACE_STEPS[i].duration, i = 0..6
Cae_duration == <<1800, 2200, 1600, 2000, 2000, 2400, 2000>>

Cae_TRACE_STEPS == Len(Cae_duration)

\* the cards that call handleNodeClick
Cae_cards ==
    {"api-server", "etcd", "scheduler", "controller-manager",
     "kubelet-1", "kube-proxy-1", "kubelet-2", "kube-proxy-2",
     "kubelet-3", "kube-proxy-3"}

Cae_WaitSteps == {200}

\* restarted is an observation: the trace that runs was started by the
\* click that followed the click that stopped a trace
Cae_Init ==
    cae = [selectedId |-> "null", traceRunning |-> FALSE, traceStepIndex |-> -1,
           traceTimeoutsRef |-> <<>>, mounted |-> TRUE, restarted |-> FALSE]

\* every card of Cae_cards has an entry in COMPONENTS under its canonical key
Cae_handleNodeClick(id) ==
    /\ sim = "cae" /\ cae.mounted
    /\ cae' = IF cae.traceRunning
              THEN cae
              ELSE [cae EXCEPT !.selectedId = IF id = @ THEN "null" ELSE id]
    /\ op' = "handleNodeClick"
    /\ UNCHANGED Cae_others

Cae_handleClose ==
    /\ sim = "cae" /\ cae.mounted
    /\ cae.selectedId # "null"
    /\ cae' = [cae EXCEPT !.selectedId = "null"]
    /\ op' = "handleClose"
    /\ UNCHANGED Cae_others

\* a stopTrace that leaves the timers of the trace pending
Cae_stopTrace_keepsTimers(st) ==
    [st EXCEPT !.traceRunning = FALSE,
               !.traceStepIndex = -1,
               !.restarted = FALSE]

\* a stopTrace that leaves the trace marked as running
Cae_stopTrace_keepsRunning(st) ==
    [st EXCEPT !.traceTimeoutsRef = <<>>,
               !.traceStepIndex = -1,
               !.restarted = FALSE]

Cae_stopTrace(st) ==
    [st EXCEPT !.traceTimeoutsRef = <<>>,
               !.traceRunning = FALSE,
               !.traceStepIndex = -1,
               !.restarted = FALSE]

\* elapsed before step i is shown: the durations of steps 0..i-1
RECURSIVE Cae_elapsed(_)
Cae_elapsed(i) == IF i = 0 THEN 0 ELSE Cae_elapsed(i - 1) + Cae_duration[i]

\* the timers of one trace: one per step 1..6, then the finish
Cae_traceTimers ==
    [i \in 1..(Cae_TRACE_STEPS - 1) |->
        [kind |-> "step", i |-> i, rem |-> Cae_elapsed(i)]]
    \o <<[kind |-> "finish", i |-> 0, rem |-> Cae_elapsed(Cae_TRACE_STEPS)]>>

Cae_startTrace ==
    /\ sim = "cae" /\ cae.mounted
    /\ cae' = IF cae.traceRunning
              THEN Cae_stopTrace(cae)
              ELSE [cae EXCEPT !.selectedId = "null",
                               !.traceRunning = TRUE,
                               !.traceStepIndex = 0,
                               !.traceTimeoutsRef = @ \o Cae_traceTimers,
                               !.restarted = (op = "startTrace")]
    /\ op' = "startTrace"
    /\ UNCHANGED Cae_others

Cae_next == cae.traceTimeoutsRef[NextDue(cae.traceTimeoutsRef)]

Cae_due(kind) == cae.traceTimeoutsRef # <<>> /\ Cae_next.kind = kind

Cae_rest == AfterRun(cae.traceTimeoutsRef, NextDue(cae.traceTimeoutsRef), 0)

Cae_stepTimer ==
    /\ sim = "cae" /\ Cae_due("step")
    /\ cae' = [cae EXCEPT !.traceStepIndex = Cae_next.i,
                          !.traceTimeoutsRef = Cae_rest]
    /\ op' = "timer"
    /\ UNCHANGED Cae_others

\* a finish that leaves the last step of the trace shown
Cae_finishTimer_keepsIndex ==
    /\ sim = "cae" /\ Cae_due("finish")
    /\ cae' = [cae EXCEPT !.traceRunning = FALSE,
                          !.traceTimeoutsRef = Cae_rest,
                          !.restarted = FALSE]
    /\ op' = "timer"
    /\ UNCHANGED Cae_others

Cae_finishTimer ==
    /\ sim = "cae" /\ Cae_due("finish")
    /\ cae' = [cae EXCEPT !.traceRunning = FALSE,
                          !.traceStepIndex = -1,
                          !.traceTimeoutsRef = Cae_rest,
                          !.restarted = FALSE]
    /\ op' = "timer"
    /\ UNCHANGED Cae_others

\* useEffect cleanup: traceTimeoutsRef.current.forEach(clearTimeout)
Cae_unmount ==
    /\ sim = "cae" /\ cae.mounted
    /\ cae' = [cae EXCEPT !.traceTimeoutsRef = <<>>, !.mounted = FALSE]
    /\ op' = "unmount"
    /\ UNCHANGED Cae_others

Cae_wait ==
    /\ sim = "cae" /\ cae.traceTimeoutsRef # <<>>
    /\ \E d \in Cae_WaitSteps :
        /\ d <= Cae_next.rem
        /\ cae' = [cae EXCEPT !.traceTimeoutsRef = Age(@, d)]
    /\ UNCHANGED <<op, Cae_others>>

NextCae ==
    \/ \E id \in Cae_cards : Cae_handleNodeClick(id)
    \/ Cae_handleClose
    \/ Cae_startTrace
    \/ Cae_stepTimer
    \/ Cae_finishTimer
    \/ Cae_unmount
    \/ Cae_wait

---------------------------------------------------------------------------
(* DesiredStateSimulator.  The log is written and never read by a handler;
   it is left out. *)

Dss_CREATING_DURATION == 900

Dss_TERMINATING_DURATION == 700

Dss_reconcileDelay == 300

Dss_idleDelay == 500

\* Math.max(CREATING_DURATION, TERMINATING_DURATION) + 150
Dss_busyDelay == Max(Dss_CREATING_DURATION, Dss_TERMINATING_DURATION) + 150

\* a timer of the simulator: desired is the value the callback closed over
\* (reconcile, rearm), pod the id it closed over (createDone, removePod,
\* crashClear); ref: reconcileTimerRef.current is this timer
Dss_timeout(kind, desired, pod, delay, ref) ==
    [kind |-> kind, desired |-> desired, pod |-> pod, rem |-> delay, ref |-> ref]

\* reconcileTimerRef.current = null
Dss_clearRef(ts) == [j \in DOMAIN ts |-> [ts[j] EXCEPT !.ref = FALSE]]

Dss_refSet(ts) == \E j \in DOMAIN ts : ts[j].ref

\* scheduleReconcile of the render whose desired is d
Dss_scheduleReconcile(st, d) ==
    IF Dss_refSet(st.timeoutIdsRef)
    THEN st
    ELSE [st EXCEPT !.timeoutIdsRef = SetTimeout(@,
             Dss_timeout("reconcile", d, 0, Dss_reconcileDelay, TRUE))]

\* cleanup of the effect on [desired, scheduleReconcile]:
\* clearTimeout(reconcileTimerRef.current); reconcileTimerRef.current = null
Dss_cleanupReconcile(st) ==
    LET IsNotRef(t) == ~t.ref IN
    [st EXCEPT !.timeoutIdsRef = SelectSeq(@, IsNotRef)]

\* the effects that run after the render that turned state old into st: the
\* one on [desired, scheduleReconcile] and the one on [pods.length,
\* scheduleReconcile]
Dss_effects(old, st) ==
    IF st.desired # old.desired
    THEN Dss_scheduleReconcile(Dss_cleanupReconcile(st), st.desired)
    ELSE IF Len(st.pods) # Len(old.pods)
    THEN Dss_scheduleReconcile(st, st.desired)
    ELSE st

\* the mount runs both effects
Dss_Init ==
    dss = [desired |-> 3, pods |-> <<>>, podCounter |-> 0,
           timeoutIdsRef |-> <<Dss_timeout("reconcile", 3, 0, Dss_reconcileDelay, TRUE)>>,
           isMounted |-> TRUE, isReconciling |-> FALSE, clicks |-> 0]

Dss_isActive(p) == p.status \in {"running", "creating"}

Dss_runningCount(pods) == Len(SelectSeq(pods, Dss_isActive))

\* [...currentPods].reverse().find(active): index of the last active pod
Dss_newestActive(pods) ==
    CHOOSE i \in DOMAIN pods :
        Dss_isActive(pods[i]) /\ \A j \in (i + 1)..Len(pods) : ~Dss_isActive(pods[j])

\* the updater the reconcile callback gives setPods, with its side effects
Dss_reconcilePods(st, d) ==
    LET effective == Dss_runningCount(st.pods) IN
    IF effective = d
    THEN [st EXCEPT !.isReconciling = FALSE]
    ELSE IF effective < d
    THEN LET id == st.podCounter + 1 IN
         [st EXCEPT !.isReconciling = TRUE,
                    !.podCounter = id,
                    !.pods = Append(@, [id |-> id, status |-> "creating"]),
                    !.timeoutIdsRef = SetTimeout(@,
                        Dss_timeout("createDone", 0, id, Dss_CREATING_DURATION, FALSE))]
    ELSE LET i == Dss_newestActive(st.pods) IN
         [st EXCEPT !.isReconciling = TRUE,
                    !.pods[i].status = "terminating",
                    !.timeoutIdsRef = SetTimeout(@,
                        Dss_timeout("removePod", 0, st.pods[i].id,
                                    Dss_TERMINATING_DURATION, FALSE))]

Dss_next == dss.timeoutIdsRef[NextDue(dss.timeoutIdsRef)]

Dss_due(kind) == dss.timeoutIdsRef # <<>> /\ Dss_next.kind = kind

Dss_rest == AfterRun(dss.timeoutIdsRef, NextDue(dss.timeoutIdsRef), 0)

\* the callback scheduleReconcile scheduled.  React runs the updater inside
\* setPods when the component has no update pending (eager) and during the
\* next render otherwise; actionTaken is read before that render
Dss_reconcileTimer ==
    /\ sim = "dss" /\ Dss_due("reconcile")
    /\ dss.podCounter < Dss_MaxPodCounter
    /\ \E eager \in BOOLEAN :
        LET d == Dss_next.desired
            st0 == [dss EXCEPT !.timeoutIdsRef = Dss_clearRef(Dss_rest)]
            actionTaken == eager /\ Dss_runningCount(dss.pods) # d
            rearm == Dss_timeout("rearm", d, 0,
                        IF actionTaken THEN Dss_busyDelay ELSE Dss_idleDelay, FALSE)
            st1 == IF eager
                   THEN [Dss_reconcilePods(st0, d) EXCEPT
                            !.timeoutIdsRef = SetTimeout(@, rearm)]
                   ELSE Dss_reconcilePods(
                            [st0 EXCEPT !.timeoutIdsRef = SetTimeout(@, rearm)], d)
        IN  dss' = IF ~dss.isMounted
                   THEN [dss EXCEPT !.timeoutIdsRef = Dss_rest]
                   ELSE Dss_effects(dss, st1)
    /\ op' = "timer"
    /\ UNCHANGED Dss_others

\* the re-arm callback: the scheduleReconcile it calls is the one that
\* scheduled it, with the desired of that render
Dss_rearmTimer ==
    /\ sim = "dss" /\ Dss_due("rearm")
    /\ dss' = IF ~dss.isMounted
              THEN [dss EXCEPT !.timeoutIdsRef = Dss_rest]
              ELSE Dss_scheduleReconcile(
                       [dss EXCEPT !.timeoutIdsRef = Dss_clearRef(Dss_rest)],
                       Dss_next.desired)
    /\ op' = "timer"
    /\ UNCHANGED Dss_others

Dss_setStatus(pods, id, status) ==
    [k \in DOMAIN pods |->
        IF pods[k].id = id THEN [pods[k] EXCEPT !.status = status] ELSE pods[k]]

Dss_without(pods, id) ==
    LET IsOther(p) == p.id # id IN SelectSeq(pods, IsOther)

Dss_createDoneTimer ==
    /\ sim = "dss" /\ Dss_due("createDone")
    /\ dss' = IF ~dss.isMounted
              THEN [dss EXCEPT !.timeoutIdsRef = Dss_rest]
              ELSE [dss EXCEPT !.timeoutIdsRef = Dss_rest,
                               !.pods = Dss_setStatus(@, Dss_next.pod, "running")]
    /\ op' = "timer"
    /\ UNCHANGED Dss_others

Dss_removePodTimer ==
    /\ sim = "dss" /\ Dss_due("removePod")
    /\ dss' = IF ~dss.isMounted
              THEN [dss EXCEPT !.timeoutIdsRef = Dss_rest]
              ELSE Dss_effects(dss,
                       [dss EXCEPT !.timeoutIdsRef = Dss_rest,
                                   !.pods = Dss_without(@, Dss_next.pod)])
    /\ op' = "timer"
    /\ UNCHANGED Dss_others

Dss_crashClearTimer ==
    /\ sim = "dss" /\ Dss_due("crashClear")
    /\ dss' = IF ~dss.isMounted
              THEN [dss EXCEPT !.timeoutIdsRef = Dss_rest]
              ELSE Dss_effects(dss,
                       [dss EXCEPT !.timeoutIdsRef = Dss_rest,
                                   !.pods = Dss_without(@, Dss_next.pod)])
    /\ op' = "timer"
    /\ UNCHANGED Dss_others

Dss_userActs == dss.isMounted /\ dss.clicks < Dss_MaxClicks

\* PodCard onClick on the pod at position i
Dss_handleKillPod(i) ==
    /\ sim = "dss" /\ Dss_userActs
    /\ i \in DOMAIN dss.pods
    /\ dss' = IF dss.pods[i].status # "running"
              THEN [dss EXCEPT !.clicks = @ + 1]
              ELSE [dss EXCEPT !.clicks = @ + 1,
                               !.pods[i].status = "crashed",
                               !.timeoutIdsRef = SetTimeout(@,
                                   Dss_timeout("crashClear", 0, dss.pods[i].id,
                                               Dss_TERMINATING_DURATION, FALSE))]
    /\ op' = "handleKillPod"
    /\ UNCHANGED Dss_others

\* disabled={desired <= 0}
Dss_decreaseDesired ==
    /\ sim = "dss" /\ Dss_userActs
    /\ dss.desired > 0
    /\ dss' = Dss_effects(dss, [dss EXCEPT !.clicks = @ + 1, !.desired = Max(0, @ - 1)])
    /\ op' = "decreaseDesired"
    /\ UNCHANGED Dss_others

\* disabled={desired >= 10}
Dss_increaseDesired ==
    /\ sim = "dss" /\ Dss_userActs
    /\ dss.desired < Min(10, Dss_MaxDesired)
    /\ dss' = Dss_effects(dss, [dss EXCEPT !.clicks = @ + 1, !.desired = Min(10, @ + 1)])
    /\ op' = "increaseDesired"
    /\ UNCHANGED Dss_others

Dss_unmount ==
    /\ sim = "dss" /\ dss.isMounted
    /\ dss' = [dss EXCEPT !.isMounted = FALSE, !.timeoutIdsRef = <<>>]
    /\ op' = "unmount"
    /\ UNCHANGED Dss_others

NextDss ==
    \/ Dss_reconcileTimer
    \/ Dss_rearmTimer
    \/ Dss_createDoneTimer
    \/ Dss_removePodTimer
    \/ Dss_crashClearTimer
    \/ \E i \in 1..Dss_MaxPodCounter : Dss_handleKillPod(i)
    \/ Dss_decreaseDesired
    \/ Dss_increaseDesired
    \/ Dss_unmount

---------------------------------------------------------------------------
(* SchedulerPlayground *)

\* nodes: name, totalCpu, totalMemory, usedCpu, usedMemory, taints
Sch_nodes ==
    << [name |-> "node-1", totalCpu |-> 4, totalMemory |-> 8,
        usedCpu |-> 1, usedMemory |-> 3, taints |-> <<>>],
       [name |-> "node-2", totalCpu |-> 2, totalMemory |-> 4,
        usedCpu |-> 1, usedMemory |-> 2, taints |-> <<>>],
       [name |-> "node-3", totalCpu |-> 8, totalMemory |-> 16,
        usedCpu |-> 6, usedMemory |-> 12, taints |-> <<"gpu=true:NoSchedule">>] >>

\* the range inputs: min={1} max={8} and min={1} max={16}
Sch_cpuRange == 1..8

Sch_memRange == 1..16

Sch_delay == 1200

Sch_WaitSteps == {600}

\* scheduled = null
Sch_noPlacement == [nodeName |-> "null"]

Sch_Init ==
    sch = [cpuReq |-> 1, memReq |-> 2, scheduled |-> Sch_noPlacement,
           scheduling |-> FALSE, timeoutRef |-> <<>>, isMounted |-> TRUE]

Sch_availCpu(node) == node.totalCpu - node.usedCpu

Sch_availMem(node) == node.totalMemory - node.usedMemory

Sch_hasTaint(node) == Len(node.taints) > 0

\* a fit test that is content with one of the two resources
Sch_fits_either(node, cpuReq, memReq) ==
    /\ Sch_availCpu(node) >= cpuReq \/ Sch_availMem(node) >= memReq
    /\ ~Sch_hasTaint(node)

\* getNodeFit(node).fits of the render whose requests are cpuReq and memReq
Sch_fits(node, cpuReq, memReq) ==
    /\ Sch_availCpu(node) >= cpuReq
    /\ Sch_availMem(node) >= memReq
    /\ ~Sch_hasTaint(node)

\* indices of nodes.map(...).filter((c) => c.fits)
Sch_candidates(cpuReq, memReq) ==
    {i \in DOMAIN Sch_nodes : Sch_fits(Sch_nodes[i], cpuReq, memReq)}

Sch_score(i) == Sch_availCpu(Sch_nodes[i]) + Sch_availMem(Sch_nodes[i])

\* a choice of the fitting node with the least free capacity
Sch_best_least(cands) ==
    CHOOSE i \in cands :
        /\ \A j \in cands : Sch_score(i) <= Sch_score(j)
        /\ \A j \in cands : Sch_score(j) = Sch_score(i) => i <= j

\* candidates.sort(descending score)[0]: the sort is stable, so among equal
\* scores the node that comes first in nodes
Sch_best(cands) ==
    CHOOSE i \in cands :
        /\ \A j \in cands : Sch_score(j) <= Sch_score(i)
        /\ \A j \in cands : Sch_score(j) = Sch_score(i) => i <= j

\* the placement the timer's callback computes for the requests it closed over
Sch_placement(cpuReq, memReq) ==
    LET cands == Sch_candidates(cpuReq, memReq) IN
    IF cands = {}
    THEN [nodeName |-> ""]
    ELSE [nodeName |-> Sch_nodes[Sch_best(cands)].name]

\* onChange of the CPU range input
Sch_setCpuReq(v) ==
    /\ sim = "sch" /\ sch.isMounted
    /\ v # sch.cpuReq
    /\ sch' = [sch EXCEPT !.cpuReq = v, !.scheduled = Sch_noPlacement]
    /\ op' = "setCpuReq"
    /\ UNCHANGED Sch_others

\* onChange of the memory range input
Sch_setMemReq(v) ==
    /\ sim = "sch" /\ sch.isMounted
    /\ v # sch.memReq
    /\ sch' = [sch EXCEPT !.memReq = v, !.scheduled = Sch_noPlacement]
    /\ op' = "setMemReq"
    /\ UNCHANGED Sch_others

\* Schedule Pod button: disabled={scheduling}.  The callback closes over
\* getNodeFit of the render in which the button was clicked
Sch_schedulePod ==
    /\ sim = "sch" /\ sch.isMounted
    /\ ~sch.scheduling
    /\ sch' = [sch EXCEPT !.scheduling = TRUE,
                          !.scheduled = Sch_noPlacement,
                          !.timeoutRef = <<[kind |-> "place", cpuReq |-> sch.cpuReq,
                                            memReq |-> sch.memReq, rem |-> Sch_delay]>>]
    /\ op' = "schedulePod"
    /\ UNCHANGED Sch_others

Sch_next == sch.timeoutRef[NextDue(sch.timeoutRef)]

Sch_rest == AfterRun(sch.timeoutRef, NextDue(sch.timeoutRef), 0)

Sch_placeTimer ==
    /\ sim = "sch" /\ sch.timeoutRef # <<>>
    /\ sch' = IF ~sch.isMounted
              THEN [sch EXCEPT !.timeoutRef = Sch_rest]
              ELSE [sch EXCEPT !.scheduled = Sch_placement(Sch_next.cpuReq, Sch_next.memReq),
                               !.scheduling = FALSE,
                               !.timeoutRef = Sch_rest]
    /\ op' = "timer"
    /\ UNCHANGED Sch_others

Sch_unmount ==
    /\ sim = "sch" /\ sch.isMounted
    /\ sch' = [sch EXCEPT !.isMounted = FALSE, !.timeoutRef = <<>>]
    /\ op' = "unmount"
    /\ UNCHANGED Sch_others

Sch_wait ==
    /\ sim = "sch" /\ sch.timeoutRef # <<>>
    /\ \E d \in Sch_WaitSteps :
        /\ d <= Sch_next.rem
        /\ sch' = [sch EXCEPT !.timeoutRef = Age(@, d)]
    /\ UNCHANGED <<op, Sch_others>>

NextSch ==
    \/ \E v \in Sch_cpuRange : Sch_setCpuReq(v)
    \/ \E v \in Sch_memRange : Sch_setMemReq(v)
    \/ Sch_schedulePod
    \/ Sch_placeTimer
    \/ Sch_unmount
    \/ Sch_wait

---------------------------------------------------------------------------
(* Progress store (zustand store wrapped in persist).  A field of the store
   that holds a value that is no array (read as such from localStorage) is
   listed in nonArray, and its sequence is empty. *)

\* SECTIONS.map((s) => s.id)
Ps_SECTIONS == <<0, 1, 2, 3, 4, 5, 6, 7, 8, 9>>

Ps_SectionIds == {Ps_SECTIONS[i] : i \in DOMAIN Ps_SECTIONS}

\* persist option version
Ps_version == 1

\* the state the store is created with
Ps_initial ==
    [currentSection |-> 0, visitedSections |-> Ps_SECTIONS,
     completedExercises |-> <<>>, nonArray |-> {}]

\* localStorage holds nothing under 'k8s-tutorial-progress'
Ps_missing == [kind |-> "missing", version |-> 0, state |-> Ps_initial]

\* localStorage holds a string JSON.parse rejects
Ps_unparsable == [kind |-> "unparsable", version |-> 0, state |-> Ps_initial]

\* failed is an observation: a call of a store operation threw
Ps_Init == ps = [store |-> Ps_initial, storage |-> Ps_missing, failed |-> FALSE]

\* a blob that leaves completedExercises out
Ps_serialize_withoutCompleted(st) ==
    [kind |-> "json", version |-> Ps_version,
     state |-> [st EXCEPT !.completedExercises = <<>>]]

\* persist's setItem: JSON.stringify({ state, version }); the functions of
\* the state are not written, numbers and arrays are written as they are
Ps_serialize(st) == [kind |-> "json", version |-> Ps_version, state |-> st]

\* persist's merge: { ...currentState, ...persistedState }
Ps_merge(persisted, current) == persisted

\* persist's hydrate of a store just created: nothing stored, a string that
\* does not parse (the error is caught) and a blob of another version with
\* no migrate option all leave the created state
Ps_hydrate(blob) ==
    IF blob.kind # "json" THEN Ps_initial
    ELSE IF blob.version # Ps_version THEN Ps_initial
    ELSE Ps_merge(blob.state, Ps_initial)

\* x put after the elements of the sorted sequence that are not greater
Ps_insert(x, sorted) ==
    LET k == Cardinality({i \in DOMAIN sorted : sorted[i] <= x})
    IN  [i \in 1..(Len(sorted) + 1) |->
            IF i <= k THEN sorted[i] ELSE IF i = k + 1 THEN x ELSE sorted[i - 1]]

\* the first n elements of s in ascending order: as they are when they
\* already ascend, else the first n - 1 sorted with the n-th put in place
RECURSIVE Ps_sortFirst(_, _)
Ps_sortFirst(s, n) ==
    IF \A i \in 1..(n - 1) : s[i] <= s[i + 1]
    THEN SubSeq(s, 1, n)
    ELSE Ps_insert(s[n], Ps_sortFirst(s, n - 1))

\* s.sort((a, b) => a - b)
Ps_sort(s) == Ps_sortFirst(s, Len(s))

Ps_includes(s, x) == \E i \in DOMAIN s : s[i] = x

\* set(partial): the store takes the new state and persist writes it out
Ps_set(p, st) == [p EXCEPT !.store = st, !.storage = Ps_serialize(st)]

\* a markVisited that does not look for the id first
Ps_markVisitedOn_always(p, section) ==
    Ps_set(p, [p.store EXCEPT !.visitedSections = Ps_sort(Append(@, section))])

\* markVisited(section) on p; existing.includes throws when existing is no array
Ps_markVisitedOn(p, section) ==
    IF "visitedSections" \in p.store.nonArray
    THEN [p EXCEPT !.failed = TRUE]
    ELSE IF ~Ps_includes(p.store.visitedSections, section)
    THEN Ps_set(p, [p.store EXCEPT !.visitedSections = Ps_sort(Append(@, section))])
    ELSE p

\* a setCurrentSection that leaves visitedSections alone
Ps_setCurrentSectionOn_unvisited(p, section) ==
    IF p.store.currentSection = section
    THEN p
    ELSE Ps_set(p, [p.store EXCEPT !.currentSection = section])

\* setCurrentSection(section) on p
Ps_setCurrentSectionOn(p, section) ==
    IF p.store.currentSection = section
    THEN p
    ELSE Ps_markVisitedOn(
             Ps_set(p, [p.store EXCEPT !.currentSection = section]),
             section)

Ps_setCurrentSection(section) ==
    /\ sim = "store"
    /\ ps' = Ps_setCurrentSectionOn(ps, section)
    /\ op' = "setCurrentSection"
    /\ UNCHANGED Ps_others

Ps_markVisited(section) ==
    /\ sim = "store"
    /\ ps' = Ps_markVisitedOn(ps, section)
    /\ op' = "markVisited"
    /\ UNCHANGED Ps_others

\* a markExerciseComplete that does not look for the id first
Ps_markExerciseCompleteOn_always(p, section) ==
    Ps_set(p, [p.store EXCEPT !.completedExercises = Ps_sort(Append(@, section))])

\* markExerciseComplete(section) on p
Ps_markExerciseCompleteOn(p, section) ==
    IF "completedExercises" \in p.store.nonArray
    THEN [p EXCEPT !.failed = TRUE]
    ELSE IF ~Ps_includes(p.store.completedExercises, section)
    THEN Ps_set(p, [p.store EXCEPT !.completedExercises = Ps_sort(Append(@, section))])
    ELSE p

Ps_markExerciseComplete(section) ==
    /\ sim = "store"
    /\ ps' = Ps_markExerciseCompleteOn(ps, section)
    /\ op' = "markExerciseComplete"
    /\ UNCHANGED Ps_others

\* a resetProgress that keeps the completed exercises
Ps_resetProgress_keepsCompleted ==
    /\ sim = "store"
    /\ ps' = Ps_set(ps, [Ps_initial EXCEPT
                            !.completedExercises = ps.store.completedExercises])
    /\ op' = "resetProgress"
    /\ UNCHANGED Ps_others

Ps_resetProgress ==
    /\ sim = "store"
    /\ ps' = Ps_set(ps, Ps_initial)
    /\ op' = "resetProgress"
    /\ UNCHANGED Ps_others

\* the page is loaded again: the store is created anew and hydrated from
\* what localStorage holds
Ps_reload ==
    /\ sim = "store"
    /\ ps' = [ps EXCEPT !.store = Ps_hydrate(ps.storage), !.failed = FALSE]
    /\ op' = "reload"
    /\ UNCHANGED Ps_others

\* a blob this store wrote: the state under the store's version
Ps_blob(currentSection, visitedSections, completedExercises) ==
    Ps_serialize([currentSection |-> currentSection,
                  visitedSections |-> visitedSections,
                  completedExercises |-> completedExercises,
                  nonArray |-> {}])

\* what localStorage holds when the page is opened, written by the store on
\* an earlier visit: nothing, or progress within the schema (here a visit
\* that had not reached the sections 3 and 7)
Ps_savedBlobs ==
    {Ps_missing, Ps_blob(8, <<0, 1, 2, 4, 5, 6, 8, 9>>, <<0, 1>>)}

\* what localStorage may hold when some other writer left it there: a
\* string that is no JSON, a blob of another version, values outside the
\* schema (ids outside 0..9, a field that is no array)
Ps_foreignBlobs ==
    {Ps_unparsable,
     [Ps_blob(42, <<0, 10>>, <<99>>) EXCEPT !.version = Ps_version + 1],
     Ps_blob(42, Ps_SECTIONS, <<>>),
     Ps_blob(0, <<0, 10>>, <<>>),
     Ps_blob(0, Ps_SECTIONS, <<99>>),
     [Ps_blob(0, <<>>, <<>>) EXCEPT !.state.nonArray = {"visitedSections"}],
     [Ps_blob(0, Ps_SECTIONS, <<>>) EXCEPT !.state.nonArray = {"completedExercises"}]}

\* the store of a page opened over what localStorage holds
Ps_opened(blob) == [store |-> Ps_hydrate(blob), storage |-> blob, failed |-> FALSE]

Ps_LoadIds == 0..Ps_MaxLoadId

NextStore ==
    \/ \E id \in Ps_SectionIds : Ps_setCurrentSection(id)
    \/ \E id \in Ps_SectionIds : Ps_markVisited(id)
    \/ \E id \in Ps_SectionIds : Ps_markExerciseComplete(id)
    \/ Ps_resetProgress
    \/ Ps_reload

NextLoad ==
    \/ \E id \in Ps_LoadIds : Ps_setCurrentSection(id)
    \/ \E id \in Ps_LoadIds : Ps_markVisited(id)
    \/ \E id \in Ps_LoadIds : Ps_markExerciseComplete(id)
    \/ Ps_resetProgress
    \/ Ps_reload

---------------------------------------------------------------------------
(* Two NetworkPolicySimulator instances on one page.  Each has its own
   useState and useRef cells; testId is a `let` of the module and so there is
   one of it.  The pending timers of both are kept in one queue, each with
   the instance that scheduled it. *)

Tw_instances == {1, 2}

Tw_instanceInit ==
    [policyActive |-> FALSE, sendingFrom |-> "null", sendingTo |-> "null",
     animating |-> FALSE, tests |-> <<>>, lastResult |-> Np_noResult,
     isMounted |-> TRUE]

Tw_Init ==
    tw = [inst |-> [k \in Tw_instances |-> Tw_instanceInit],
          testId |-> 0, timers |-> <<>>, last |-> 0]

\* if (animating || from === to) return, in instance k
Tw_ignored(k, from, to) == tw.inst[k].animating \/ from = to

\* sendTraffic of instance k
Tw_sendTraffic(k, from, to) ==
    /\ sim = "twin" /\ tw.inst[k].isMounted
    /\ Tw_ignored(k, from, to) \/ tw.testId + Len(tw.timers) < Tw_MaxTests
    /\ tw' = IF Tw_ignored(k, from, to)
             THEN tw
             ELSE [tw EXCEPT !.inst[k].animating = TRUE,
                             !.inst[k].sendingFrom = from,
                             !.inst[k].sendingTo = to,
                             !.inst[k].lastResult = Np_noResult,
                             !.timers = SetTimeout(@,
                                 [kind |-> "result", inst |-> k,
                                  from |-> from, to |-> to,
                                  policyActive |-> tw.inst[k].policyActive,
                                  rem |-> Np_delay]),
                             !.last = k]
    /\ op' = "sendTraffic"
    /\ UNCHANGED Tw_others

Tw_next == tw.timers[NextDue(tw.timers)]

Tw_rest == AfterRun(tw.timers, NextDue(tw.timers), 0)

\* a counter that every instance has for itself
Tw_nextTestId_perInstance(k) == Len(tw.inst[k].tests) + 1

\* testId++ of the module's counter
Tw_nextTestId(k) == tw.testId + 1

\* the callback of the timer that is due first, in the instance that set it
Tw_resultTimer ==
    /\ sim = "twin" /\ tw.timers # <<>>
    /\ LET t == Tw_next
           k == t.inst
           allowed == ~Np_isBlocked(t.policyActive, t.from, t.to)
           testId == Tw_nextTestId(k)
       IN  tw' = IF ~tw.inst[k].isMounted
                 THEN [tw EXCEPT !.timers = Tw_rest, !.last = k]
                 ELSE
                 [tw EXCEPT !.testId = testId,
                            !.inst[k].tests = Np_slice8(
                                <<[id |-> testId, from |-> t.from,
                                   to |-> t.to, allowed |-> allowed]>> \o @),
                            !.inst[k].lastResult = [allowed |-> allowed,
                                                    from |-> t.from, to |-> t.to],
                            !.inst[k].sendingFrom = "null",
                            !.inst[k].sendingTo = "null",
                            !.inst[k].animating = FALSE,
                            !.timers = Tw_rest,
                            !.last = k]
    /\ op' = "timer"
    /\ UNCHANGED Tw_others

Tw_togglePolicy(k) ==
    /\ sim = "twin" /\ tw.inst[k].isMounted
    /\ tw' = [tw EXCEPT !.inst[k].policyActive = ~@,
                        !.inst[k].lastResult = Np_noResult,
                        !.last = k]
    /\ op' = "togglePolicy"
    /\ UNCHANGED Tw_others

Tw_isTimerOf(k, t) == t.inst = k

\* the cleanup of instance k clears the timers of its own timeoutIds
Tw_unmount(k) ==
    /\ sim = "twin" /\ tw.inst[k].isMounted
    /\ tw' = [tw EXCEPT !.inst[k].isMounted = FALSE,
                        !.timers = SelectSeq(@, LAMBDA t : ~Tw_isTimerOf(k, t)),
                        !.last = k]
    /\ op' = "unmount"
    /\ UNCHANGED Tw_others

Tw_wait ==
    /\ sim = "twin" /\ tw.timers # <<>>
    /\ \E d \in Np_WaitSteps :
        /\ d <= Tw_next.rem
        /\ tw' = [tw EXCEPT !.timers = Age(@, d)]
    /\ UNCHANGED <<op, Tw_others>>

NextTwin ==
    \/ \E k \in Tw_instances, from \in Np_PODS, to \in Np_PODS : Tw_sendTraffic(k, from, to)
    \/ Tw_resultTimer
    \/ \E k \in Tw_instances : Tw_togglePolicy(k)
    \/ \E k \in Tw_instances : Tw_unmount(k)
    \/ Tw_wait

---------------------------------------------------------------------------
(* HPAConceptSimulator.  An event is recorded with its id and type; its
   message, a text, is left out.  eventId is the counter of the module. *)

HPA_MIN == 1

HPA_MAX == 6

TARGET_CPU == 50

CPU_FLOOR == 10

CPU_CEIL == 100

Hpa_Init ==
    hpa = [replicas |-> 2, cpu |-> 30, events |-> <<>>, evaluating |-> FALSE,
           evaluationTimer |-> <<>>, eventId |-> 0, isMounted |-> TRUE]

\* a clamp with no upper end
clampCpu_noCeil(value) == Max(CPU_FLOOR, value)

clampCpu(value) == Max(CPU_FLOOR, Min(CPU_CEIL, value))

\* addEvent, applied to the state h
Hpa_addEvent(h, type) ==
    [h EXCEPT !.eventId = @ + 1,
              !.events = SubSeq(<<[id |-> h.eventId + 1, type |-> type]>> \o @,
                                1, Min(6, Len(@) + 1))]

Hpa_addTraffic ==
    /\ sim = "hpa" /\ hpa.isMounted
    /\ hpa' = [hpa EXCEPT !.cpu = clampCpu(@ + 20)]
    /\ op' = "addTraffic"
    /\ UNCHANGED Hpa_others

Hpa_removeTraffic ==
    /\ sim = "hpa" /\ hpa.isMounted
    /\ hpa' = [hpa EXCEPT !.cpu = clampCpu(@ - 20)]
    /\ op' = "removeTraffic"
    /\ UNCHANGED Hpa_others

\* HPA Evaluate button: disabled={evaluating}.  The callback closes over cpu
\* and replicas of the render in which the button was clicked
Hpa_evaluate ==
    /\ sim = "hpa" /\ hpa.isMounted
    /\ ~hpa.evaluating
    /\ hpa.eventId < Hpa_MaxEvents
    /\ hpa' = [hpa EXCEPT !.evaluating = TRUE,
                          !.evaluationTimer = <<[cpu |-> hpa.cpu,
                                                 replicas |-> hpa.replicas]>>]
    /\ op' = "evaluate"
    /\ UNCHANGED Hpa_others

\* the callback of the timer, for the cpu and replicas it closed over
Hpa_decide(h, cpu, replicas) ==
    IF cpu > TARGET_CPU /\ replicas < HPA_MAX
    THEN Hpa_addEvent([h EXCEPT !.replicas = @ + 1, !.cpu = clampCpu(@ - 15)],
                      "scale-up")
    ELSE IF cpu < 30 /\ replicas > HPA_MIN
    THEN Hpa_addEvent([h EXCEPT !.replicas = @ - 1, !.cpu = clampCpu(@ + 10)],
                      "scale-down")
    ELSE Hpa_addEvent(h, "stable")

Hpa_evaluationTimer ==
    /\ sim = "hpa" /\ hpa.evaluationTimer # <<>>
    /\ hpa' = IF ~hpa.isMounted
              THEN [hpa EXCEPT !.evaluationTimer = <<>>]
              ELSE [Hpa_decide(hpa, hpa.evaluationTimer[1].cpu,
                               hpa.evaluationTimer[1].replicas)
                        EXCEPT !.evaluating = FALSE, !.evaluationTimer = <<>>]
    /\ op' = "timer"
    /\ UNCHANGED Hpa_others

Hpa_unmount ==
    /\ sim = "hpa" /\ hpa.isMounted
    /\ hpa' = [hpa EXCEPT !.isMounted = FALSE, !.evaluationTimer = <<>>]
    /\ op' = "unmount"
    /\ UNCHANGED Hpa_others

NextHpa ==
    \/ Hpa_addTraffic
    \/ Hpa_removeTraffic
    \/ Hpa_evaluate
    \/ Hpa_evaluationTimer
    \/ Hpa_unmount

---------------------------------------------------------------------------
(* TroubleshootingFlowSimulator.  A step of a scenario is recorded with its
   command; its output and summary, texts that are only shown, are left out.
   A hint is its text, with the command it names where the text holds one.
   op is the command of the button after a click on a command. *)

\* SCENARIOS[key].steps.map((s) => s.command)
SCENARIOS ==
    [pending |-> <<"kubectl get pods", "kubectl describe pod <name>",
                   "kubectl get events --sort-by=.lastTimestamp">>,
     crashloop |-> <<"kubectl get pods", "kubectl logs <name>",
                     "kubectl describe pod <name>">>,
     not_responding |-> <<"kubectl get pods", "kubectl logs <name>",
                          "kubectl describe pod <name>", "kubectl get svc">>]

ALL_COMMANDS ==
    {"kubectl get pods", "kubectl describe pod <name>", "kubectl logs <name>",
     "kubectl get events --sort-by=.lastTimestamp", "kubectl get svc",
     "kubectl delete pod <name>"}

\* hint = null
Tf_noHint == [text |-> "null", expected |-> ""]

Tf_Init ==
    tf = [selectedScenario |-> "pending", currentStep |-> 0, completedSteps |-> <<>>,
          hint |-> Tf_noHint, finished |-> FALSE]

\* expectedCommands[i], the indices of the code counting from 0
Tf_expectedCommand(scenarioKey, i) == SCENARIOS[scenarioKey][i + 1]

buildHint(clicked, expected, scenarioKey, stepIndex) ==
    IF clicked = "kubectl delete pod <name>"
    THEN [text |-> "Deleting the pod destroys diagnostic information.", expected |-> ""]
    ELSE IF stepIndex = 0 /\ clicked # "kubectl get pods"
    THEN [text |-> "Start with kubectl get pods", expected |-> ""]
    ELSE IF scenarioKey = "crashloop" /\ stepIndex = 1
            /\ clicked = "kubectl describe pod <name>"
    THEN [text |-> "For CrashLoopBackOff, check logs first", expected |-> ""]
    ELSE IF scenarioKey = "pending" /\ stepIndex = 1 /\ clicked = "kubectl logs <name>"
    THEN [text |-> "A Pending pod has not started yet, so there are no logs.",
          expected |-> ""]
    ELSE IF scenarioKey = "not_responding" /\ stepIndex = 3 /\ clicked # "kubectl get svc"
    THEN [text |-> "Check the Service definition next.", expected |-> ""]
    ELSE [text |-> "Not quite. Try", expected |-> expected]

\* resetState, applied to the state t
resetState(t) ==
    [t EXCEPT !.currentStep = 0, !.completedSteps = <<>>, !.hint = Tf_noHint,
              !.finished = FALSE]

\* a command click that takes every command for the expected one
handleCommandClick_anyCommand(t, command) ==
    IF t.finished THEN t
    ELSE LET nextCompleted == Append(t.completedSteps, t.currentStep) IN
         IF t.currentStep + 1 >= Len(SCENARIOS[t.selectedScenario])
         THEN [t EXCEPT !.hint = Tf_noHint, !.completedSteps = nextCompleted,
                        !.finished = TRUE]
         ELSE [t EXCEPT !.hint = Tf_noHint, !.completedSteps = nextCompleted,
                        !.currentStep = @ + 1]

\* handleCommandClick(command) in the state t
handleCommandClick(t, command) ==
    IF t.finished THEN t
    ELSE LET expected == Tf_expectedCommand(t.selectedScenario, t.currentStep)
             nextCompleted == Append(t.completedSteps, t.currentStep)
         IN  IF command = expected
             THEN IF t.currentStep + 1 >= Len(SCENARIOS[t.selectedScenario])
                  THEN [t EXCEPT !.hint = Tf_noHint, !.completedSteps = nextCompleted,
                                 !.finished = TRUE]
                  ELSE [t EXCEPT !.hint = Tf_noHint, !.completedSteps = nextCompleted,
                                 !.currentStep = @ + 1]
             ELSE [t EXCEPT !.hint = buildHint(command, expected, t.selectedScenario,
                                               t.currentStep)]

isCommandCompleted(t, command) ==
    \E j \in DOMAIN t.completedSteps :
        SCENARIOS[t.selectedScenario][t.completedSteps[j] + 1] = command

\* the button of a command: disabled={completed || finished}
Tf_commandClick(command) ==
    /\ sim = "tf"
    /\ ~isCommandCompleted(tf, command) /\ ~tf.finished
    /\ tf' = handleCommandClick(tf, command)
    /\ op' = command
    /\ UNCHANGED Tf_others

\* Reset button
Tf_reset ==
    /\ sim = "tf"
    /\ tf' = resetState(tf)
    /\ op' = "resetState"
    /\ UNCHANGED Tf_others

\* onChange of the scenario select, which fires when another option is chosen
handleScenarioChange(key) ==
    /\ sim = "tf"
    /\ key # tf.selectedScenario
    /\ tf' = resetState([tf EXCEPT !.selectedScenario = key])
    /\ op' = "handleScenarioChange"
    /\ UNCHANGED Tf_others

NextTf ==
    \/ \E command \in ALL_COMMANDS : Tf_commandClick(command)
    \/ Tf_reset
    \/ \E key \in DOMAIN SCENARIOS : handleScenarioChange(key)

---------------------------------------------------------------------------
(* Claims *)

\* the step lets time pass and runs no code
Waits == Cpj_wait \/ Np_wait \/ Sr_wait \/ Cae_wait \/ Sch_wait \/ Tw_wait

\* the step is a run of the handler called name
Handled(name) == op' = name /\ ~Waits

\* the step is a run of a timer's callback
TimerFired == op' = "timer" /\ ~Waits

IsPrefix(s, t) == Len(s) <= Len(t) /\ s = SubSeq(t, 1, Len(s))

Ro_isCreateOrTerminate(m) == m \in {"creating", "terminating"}

Ro_createTerminateEvents == SelectSeq(ro.log, Ro_isCreateOrTerminate)

Ro_alternating ==
    <<"creating", "terminating", "creating", "terminating",
      "creating", "terminating", "creating", "terminating">>

\* C1: a rollout started from the 4 Running v1 pods whose timers all fire
\* emits 'Creating pod' and 'Terminating pod' events strictly alternating,
\* create first; when it is complete there were exactly 4 of each, progress
\* is 100 and the pods are exactly 4, all v2 and Running.
C1_RolloutAlternates ==
    /\ ro.phase \in {"rolling", "complete"} =>
            IsPrefix(Ro_createTerminateEvents, Ro_alternating)
    /\ ro.phase = "complete" =>
            /\ Ro_createTerminateEvents = Ro_alternating
            /\ ro.progress = 100
            /\ Len(ro.pods) = 4
            /\ \A k \in DOMAIN ro.pods :
                    ro.pods[k].version = "v2" /\ ro.pods[k].status = "Running"

C1_Witness ==
    /\ sim = "rollout" /\ op = "timer"
    /\ ro.phase = "complete"
    /\ Len(ro.log) = 19

\* C2: once the user of the ControlPlaneJourney has halted progression, by
\* Reset or by a click on a step already reached (jump back), the timers that
\* were pending at the halt change neither activeIndex nor traversingIndex
\* nor isRunningAll.  The first timer to fire after the halt, with no
\* handler in between, is one of them.
C2_HaltSilencesTimers ==
    [][(op \in {"handleReset", "jumpBack"} /\ TimerFired) =>
            /\ cpj'.activeIndex = cpj.activeIndex
            /\ cpj'.traversingIndex = cpj.traversingIndex
            /\ cpj'.isRunningAll = cpj.isRunningAll]_vars

\* a jump back with a timer of the journey pending
C2_Witness ==
    /\ sim = "cpj" /\ op = "jumpBack"
    /\ cpj.timeoutIds # <<>>

\* C3: a start operation invoked while its simulator runs is a no-op:
\* sendTraffic while animating, handleSendRequest while animating and runAll
\* while isRunningAll change no state variable and schedule no timer.
C3_StartWhileRunningIsNoOp ==
    [][/\ (Handled("sendTraffic") /\ np.animating) => np' = np
       /\ (Handled("handleSendRequest") /\ sr.animating) => sr' = sr
       /\ (Handled("runAll") /\ cpj.isRunningAll) => cpj' = cpj]_vars

\* Run All was invoked while the loop of an earlier Run All slept in its
\* pause after a step
C3_Witness ==
    /\ sim = "cpj" /\ op = "runAll"
    /\ cpj.isRunningAll /\ cpj.activeIndex > 0
    /\ \E k \in DOMAIN cpj.timeoutIds : cpj.timeoutIds[k].kind = "sleep1000"

C5_ResetRestoresInitial ==
    /\ op = "handleReset" =>
            /\ cpj.activeIndex = 0
            /\ cpj.traversingIndex = NoIndex
            /\ ~cpj.isRunningAll
            /\ cpj.timeoutIds = <<>>
    /\ op = "reset" =>
            /\ ro.phase = "idle"
            /\ ro.progress = 0
            /\ ro.log = <<>>
            /\ ro.pods = Ro_buildInitialPods
            /\ ro.timeoutsRef = <<>>

\* the journey right after handleReset
C5_Witness ==
    /\ sim = "cpj" /\ op = "handleReset"
    /\ cpj.isMounted /\ cpj.activeIndex = 0 /\ cpj.timeoutIds = <<>>

\* pending sleeps of runAll: every live loop of runAll waits in one
Cpj_isSleep(t) == t.kind \in {"sleep480", "sleep1000"}

Cpj_liveLoops == Len(SelectSeq(cpj.timeoutIds, Cpj_isSleep))

\* C6: in the ControlPlaneJourney at most one loop of runAll is alive at any
\* time, and every change a timer makes to activeIndex moves it from k to
\* k + 1.
C6_OneLoopInOrder ==
    [][/\ Cpj_liveLoops' <= 1
       /\ (TimerFired /\ cpj'.activeIndex # cpj.activeIndex) =>
                cpj'.activeIndex = cpj.activeIndex + 1]_vars

\* a timer of the journey moved activeIndex
C6_Witness ==
    /\ sim = "cpj" /\ op = "timer"
    /\ cpj.activeIndex = 2

\* C7: after a switch of the service-type tab no request that was sent
\* before the switch changes activeLayerId, targetedPod, pulsingPod or
\* animating when its loop resumes from an awaited delay.
C7_SwitchCancelsAnimation ==
    [][(/\ TimerFired
        /\ sr.timeoutIds # <<>>
        /\ Sr_next.kind \in {"delay500", "delay120", "delay300"}
        /\ Sr_next.run <= sr.cancelled) =>
            /\ sr'.activeLayerId = sr.activeLayerId
            /\ sr'.targetedPod = sr.targetedPod
            /\ sr'.pulsingPod = sr.pulsingPod
            /\ sr'.animating = sr.animating]_vars

\* the tab was switched while the loop of a request waited in a delay
C7_Witness ==
    /\ sim = "sr" /\ op = "handleTypeChange"
    /\ \E k \in DOMAIN sr.timeoutIds :
            /\ sr.timeoutIds[k].kind = "delay500"
            /\ sr.timeoutIds[k].run <= sr.cancelled

\* C8: once a RolloutSimulator, a DesiredStateSimulator or a
\* ServiceRoutingSimulator is torn down, no step changes its state: neither
\* a timer that was pending at the teardown nor one scheduled from inside
\* another timer's callback.
C8_NoMutationAfterTeardown ==
    [][/\ ~ro.mounted =>
                /\ ro'.pods = ro.pods /\ ro'.phase = ro.phase
                /\ ro'.progress = ro.progress /\ ro'.log = ro.log
                /\ ro'.timeoutsRef = <<>>
       /\ ~dss.isMounted =>
                /\ dss'.pods = dss.pods /\ dss'.desired = dss.desired
                /\ dss'.podCounter = dss.podCounter
                /\ dss'.isReconciling = dss.isReconciling
                /\ dss'.timeoutIdsRef = <<>>
       /\ ~sr.isMounted =>
                /\ sr'.activeType = sr.activeType /\ sr'.animating = sr.animating
                /\ sr'.activeLayerId = sr.activeLayerId
                /\ sr'.targetedPod = sr.targetedPod
                /\ sr'.pulsingPod = sr.pulsingPod
                /\ sr'.runCount = sr.runCount
                /\ sr'.timeoutIds = <<>>]_vars

\* a DesiredStateSimulator torn down while a pod was being created, that is
\* with the createDone timer and the timers of the reconcile loop pending
C8_Witness ==
    /\ sim = "dss" /\ op = "unmount"
    /\ ~dss.isMounted
    /\ \E k \in DOMAIN dss.pods : dss.pods[k].status = "creating"

\* the timers that one trace still has pending when it shows step idx
Cae_ownTimers(idx) == SubSeq(Cae_traceTimers, idx + 1, Cae_TRACE_STEPS)

\* C9: stopTrace cancels every timer of the trace: while no trace runs
\* traceStepIndex is -1 and no timer is pending, and while a trace runs the
\* pending timers are those of that trace alone, one for each step still to
\* be shown and the one that ends it.
C9_StopCancelsTimers ==
    cae.mounted =>
        /\ ~cae.traceRunning =>
                cae.traceStepIndex = -1 /\ cae.traceTimeoutsRef = <<>>
        /\ cae.traceRunning =>
                /\ cae.traceStepIndex \in 0..(Cae_TRACE_STEPS - 1)
                /\ Len(cae.traceTimeoutsRef) = Cae_TRACE_STEPS - cae.traceStepIndex
                /\ \A k \in DOMAIN cae.traceTimeoutsRef :
                        /\ cae.traceTimeoutsRef[k].kind = Cae_ownTimers(cae.traceStepIndex)[k].kind
                        /\ cae.traceTimeoutsRef[k].i = Cae_ownTimers(cae.traceStepIndex)[k].i

\* a trace started right after a stop has been advanced by two of its timers
C9_Witness ==
    /\ sim = "cae" /\ op = "timer"
    /\ cae.restarted /\ cae.traceRunning
    /\ cae.traceStepIndex = 2

\* the decision the claim tabulates: allowed unless the policy is active, the
\* destination is the database and the source is not the api
C10_allowed(policyActive, from, to) ==
    IF ~policyActive THEN TRUE
    ELSE IF to = "database" THEN from = "api"
    ELSE TRUE

\* C10: the result the NetworkPolicySimulator reports for a connection
\* between distinct pods is the one isBlocked gives for the policy of the
\* render that sent it: allowed for every pair with the policy inactive;
\* with the policy active, to the database allowed from the api only, and
\* allowed to every other destination.
C10_IsBlockedTable ==
    [][(TimerFired /\ np.isMounted) =>
            /\ Np_next.from # Np_next.to
            /\ np'.lastResult.allowed =
                    C10_allowed(Np_next.policyActive, Np_next.from, Np_next.to)
            /\ np'.tests[1].allowed = np'.lastResult.allowed]_vars

\* the policy denied the frontend its connection to the database
C10_Witness ==
    /\ sim = "np" /\ op = "timer"
    /\ np.lastResult = [allowed |-> FALSE, from |-> "frontend", to |-> "database"]

\* some node has both the free CPU and the free memory of the request
Sch_fitsFreeCapacity(cpuReq, memReq) ==
    \E i \in DOMAIN Sch_nodes :
        /\ Sch_nodes[i].totalCpu - Sch_nodes[i].usedCpu >= cpuReq
        /\ Sch_nodes[i].totalMemory - Sch_nodes[i].usedMemory >= memReq

\* C11: when the scheduler has evaluated a request, the pod is Pending
\* (nodeName empty) if no node has both free CPU >= cpuReq and free memory
\* >= memReq, and the node it names is never the tainted node-3
C11_PendingWhenNothingFits ==
    [][TimerFired /\ sim = "sch" /\ sch.isMounted
        => /\ sch'.scheduled.nodeName # "null"
           /\ ~Sch_fitsFreeCapacity(Sch_next.cpuReq, Sch_next.memReq)
                => sch'.scheduled.nodeName = ""
           /\ sch'.scheduled.nodeName # "node-3"]_vars

\* a request of 1 vCPU and 6 Gi, for which some node has the CPU and no node
\* the memory, ended Pending
C11_Witness ==
    /\ sim = "sch" /\ op = "timer"
    /\ sch.cpuReq = 1 /\ sch.memReq = 6
    /\ sch.scheduled.nodeName = ""

\* how often x occurs in s
Ps_count(s, x) == Cardinality({i \in DOMAIN s : s[i] = x})

\* C12: markExerciseComplete(id), id in 0..9, leaves id exactly once in
\* completedExercises and does not fail, and a further call with the same
\* id changes nothing
C12_MarkCompleteIdempotent ==
    [][sim = "store" /\ op' = "markExerciseComplete"
        => \A id \in Ps_SectionIds :
            ps' = Ps_markExerciseCompleteOn(ps, id)
                => /\ Ps_count(ps'.store.completedExercises, id) = 1
                   /\ Ps_markExerciseCompleteOn(ps', id) = ps'
                   /\ ~ps'.failed]_vars

\* the sections 2 and 5 are complete after a call of markExerciseComplete
C12_Witness ==
    /\ sim = "store" /\ op = "markExerciseComplete"
    /\ ps.store.completedExercises = <<2, 5>>
    /\ ps.storage = Ps_blob(0, Ps_SECTIONS, <<2, 5>>)

Ps_elements(s) == {s[i] : i \in DOMAIN s}

\* C13: setCurrentSection(id) with id other than the current section makes
\* id the current section and leaves id in visitedSections, where nothing
\* else is added or removed and completedExercises stays as it is; with id
\* the current section it changes nothing
C13_SetCurrentSection ==
    [][sim = "store" /\ op' = "setCurrentSection"
        => \A id \in Ps_SectionIds :
            ps' = Ps_setCurrentSectionOn(ps, id)
                => /\ id # ps.store.currentSection
                        => /\ ps'.store.currentSection = id
                           /\ Ps_count(ps'.store.visitedSections, id) = 1
                           /\ Ps_elements(ps'.store.visitedSections)
                                = Ps_elements(ps.store.visitedSections) \cup {id}
                           /\ ps'.store.completedExercises = ps.store.completedExercises
                           /\ ~ps'.failed
                   /\ id = ps.store.currentSection => ps' = ps]_vars

\* section 3, which had not been visited, became the current section
C13_Witness ==
    /\ sim = "store" /\ op = "setCurrentSection"
    /\ ps.store.currentSection = 3
    /\ ps.store.visitedSections = <<0, 1, 2, 3, 4, 5, 6, 8, 9>>

\* C14: resetProgress leaves the store in its initial state: currentSection
\* 0, visitedSections every section id 0..9 in order, completedExercises
\* empty; localStorage holds that state, so the next page load starts there
C14_ResetRestoresInitial ==
    [][sim = "store" /\ op' = "resetProgress"
        => /\ ps'.store.currentSection = 0
           /\ ps'.store.visitedSections = <<0, 1, 2, 3, 4, 5, 6, 7, 8, 9>>
           /\ ps'.store.completedExercises = <<>>
           /\ ps'.store.nonArray = {}
           /\ ~ps'.failed
           /\ Ps_hydrate(ps'.storage) = ps'.store]_vars

\* resetProgress ran
C14_Witness ==
    /\ sim = "store" /\ op = "resetProgress"
    /\ ps.store.currentSection = 0
    /\ ps.store.completedExercises = <<>>
    /\ ps.storage.kind = "json"

Ps_isIdSet(s) ==
    /\ Ps_elements(s) \subseteq 0..9
    /\ Cardinality(Ps_elements(s)) = Len(s)

\* C15: after any sequence of setCurrentSection, markVisited,
\* markExerciseComplete and resetProgress with ids in 0..9 (and of page
\* loads in between), completedExercises and visitedSections hold section
\* ids 0..9 only and none twice, and currentSection is a section id
C15_StoreInvariant ==
    sim = "store"
        => /\ ps.store.nonArray = {}
           /\ Ps_isIdSet(ps.store.visitedSections)
           /\ Ps_isIdSet(ps.store.completedExercises)
           /\ ps.store.currentSection \in 0..9

\* a store that has seen calls of three of the operations: section 7 was
\* marked visited, 3 was not, 5 is current and 0, 1 and 9 are complete
C15_Witness ==
    /\ sim = "store" /\ op = "markVisited"
    /\ ps.store.currentSection = 5
    /\ ps.store.visitedSections = <<0, 1, 2, 4, 5, 6, 7, 8, 9>>
    /\ ps.store.completedExercises = <<0, 1, 9>>

\* the states a and b of the store agree on currentSection and, as sets, on
\* visitedSections and completedExercises
Ps_sameProgress(a, b) ==
    /\ a.currentSection = b.currentSection
    /\ Ps_elements(a.visitedSections) = Ps_elements(b.visitedSections)
    /\ Ps_elements(a.completedExercises) = Ps_elements(b.completedExercises)
    /\ a.nonArray = b.nonArray

Ps_inSchema(blob) ==
    /\ blob.kind = "json" /\ blob.version = 1
    /\ blob.state.nonArray = {}
    /\ blob.state.currentSection \in 0..9
    /\ Ps_elements(blob.state.visitedSections) \subseteq 0..9
    /\ Ps_elements(blob.state.completedExercises) \subseteq 0..9

\* C17: a store loaded over an item that is missing, does not parse, is of
\* another version or holds values outside the schema starts in the initial
\* state (currentSection 0, every section visited, nothing completed), and
\* no operation of the store fails afterwards
C17_BadItemFallsBack ==
    sim = "store"
        => /\ op \in {"init", "reload"} /\ ~Ps_inSchema(ps.storage)
                => /\ ps.store.currentSection = 0
                   /\ ps.store.visitedSections = <<0, 1, 2, 3, 4, 5, 6, 7, 8, 9>>
                   /\ ps.store.completedExercises = <<>>
                   /\ ps.store.nonArray = {}
           /\ ~ps.failed

\* the same for the items that are missing, do not parse or are of another
\* version, which do leave the initial state
C17_UnreadableItemFallsBack ==
    sim = "store" /\ op \in {"init", "reload"}
        /\ (ps.storage.kind # "json" \/ ps.storage.version # 1)
        => ps.store = [currentSection |-> 0,
                       visitedSections |-> <<0, 1, 2, 3, 4, 5, 6, 7, 8, 9>>,
                       completedExercises |-> <<>>, nonArray |-> {}]

\* setCurrentSection threw in a store loaded over an item whose
\* visitedSections is no list, after it had set currentSection
C17_Witness ==
    /\ sim = "store" /\ op = "setCurrentSection"
    /\ ps.failed
    /\ "visitedSections" \in ps.store.nonArray
    /\ ps.store.currentSection = 1

\* a loop of runAll resumes from a sleep in this step
Cpj_loopResumes ==
    /\ TimerFired /\ sim = "cpj"
    /\ cpj.timeoutIds # <<>> /\ Cpj_isSleep(Cpj_next)

\* a run that was not interrupted moves the cursor one step at a time and,
\* when its loop ends, has reached the last step
Cpj_runCompletes ==
    Cpj_loopResumes /\ cpj.isMounted /\ cpj.runAllRef
        => /\ cpj'.activeIndex \in {cpj.activeIndex, cpj.activeIndex + 1}
           /\ ~cpj'.runAllRef
                => /\ cpj'.activeIndex = Cpj_STEPS - 1
                   /\ cpj'.traversingIndex = NoIndex
                   /\ ~cpj'.isRunningAll

\* a jump back, a Reset or the unmount of the host during a run ends it
Cpj_interruptEnds ==
    (Handled("jumpBack") \/ Handled("handleReset") \/ Handled("unmount"))
        /\ sim = "cpj" /\ cpj.isRunningAll
        => /\ ~cpj'.isRunningAll
           /\ ~cpj'.runAllRef

\* a loop that resumes after its run was interrupted leaves the cursor
\* where it is
Cpj_interruptedStops ==
    Cpj_loopResumes /\ (~cpj.isRunningAll \/ ~cpj.isMounted)
        => /\ cpj'.activeIndex = cpj.activeIndex
           /\ cpj'.isRunningAll = cpj.isRunningAll

\* a run of runAll that is under way ends: by reaching the last step, by
\* an interruption or with the host
Cpj_liveRunEnds ==
    (sim = "cpj" /\ cpj.isMounted /\ cpj.runAllRef)
        ~> (~cpj.isMounted \/ ~cpj.runAllRef)

\* C18: a run of runAll that is not interrupted goes through every step up
\* to the last one and ends there with traversingIndex null and isRunningAll
\* false; a jump back, a Reset or the unmount of the host during the run
\* leaves isRunningAll false, and the run advances no further
C18_RunAllCompletesOrStops ==
    [][Cpj_runCompletes /\ Cpj_interruptEnds /\ Cpj_interruptedStops]_vars

\* the host went away during a run of runAll
C18_Witness ==
    /\ sim = "cpj" /\ op = "unmount"
    /\ cpj.isRunningAll

\* the indices advanceTo is tried with: every step, and one and two beyond
\* either end
Cpj_requests == (0 - 2)..(Cpj_STEPS + 1)

\* C19: advanceTo(n) changes nothing when n <= activeIndex or n >=
\* STEPS.length, and starts the advance to n otherwise; a click on a step
\* beyond activeIndex changes nothing; a click on step i <= activeIndex sets
\* activeIndex to i in that same step, whatever lies between, clears
\* traversingIndex and ends run-all
C19_StepJumps ==
    [][sim = "cpj" =>
        /\ \A n \in Cpj_requests :
            IF n <= cpj.activeIndex \/ n >= Cpj_STEPS
            THEN Cpj_advanceTo(n) = cpj
            ELSE /\ Cpj_advanceTo(n).traversingIndex = n - 1
                 /\ Cpj_advanceTo(n).activeIndex = cpj.activeIndex
                 /\ Len(Cpj_advanceTo(n).timeoutIds) = Len(cpj.timeoutIds) + 1
        /\ \A i \in 0..(Cpj_STEPS - 1) :
            Cpj_stepClick(i) =>
                IF i > cpj.activeIndex
                THEN cpj' = cpj
                ELSE /\ cpj'.activeIndex = i
                     /\ cpj'.traversingIndex = NoIndex
                     /\ ~cpj'.isRunningAll /\ ~cpj'.runAllRef
                     /\ cpj'.timeoutIds = cpj.timeoutIds]_vars

\* a click on step 1 while runAll was on its way from step 3 to step 4
C19_Witness ==
    /\ sim = "cpj" /\ op = "jumpBack"
    /\ cpj.activeIndex = 1
    /\ \E k \in DOMAIN cpj.timeoutIds :
            cpj.timeoutIds[k].kind = "sleep480" /\ cpj.timeoutIds[k].arg = 3

\* C20: the step cursor stays in range: activeIndex of the
\* ControlPlaneJourney is one of 0..STEPS.length - 1 in every reachable
\* state, and traceStepIndex of the ClusterAnatomyExplorer is one of
\* -1..TRACE_STEPS.length - 1 and is 0 or more exactly while traceRunning
C20_CursorInRange ==
    /\ sim = "cpj" =>
            cpj.activeIndex >= 0 /\ cpj.activeIndex <= Cpj_STEPS - 1
    /\ sim = "cae" =>
            /\ cae.traceStepIndex >= 0 - 1
            /\ cae.traceStepIndex <= Cae_TRACE_STEPS - 1
            /\ cae.traceStepIndex >= 0 <=> cae.traceRunning

\* the trace of the explorer shows its last step
C20_Witness ==
    /\ sim = "cae" /\ op = "timer"
    /\ cae.traceRunning
    /\ cae.traceStepIndex = Cae_TRACE_STEPS - 1

\* runAll has brought the journey to its last step
C20_WitnessJourney ==
    /\ sim = "cpj" /\ op = "timer"
    /\ cpj.activeIndex = Cpj_STEPS - 1
    /\ ~cpj.isRunningAll

\* the ids of the tests instance k has recorded are those it gives them when
\* it is alone on the page: 1 for its first test, 2 for its second, ...
Tw_idsAsAlone(k) ==
    \A j \in DOMAIN tw.inst[k].tests :
        tw.inst[k].tests[j].id = Len(tw.inst[k].tests) - j + 1

\* C21: two instances of a simulator on one page share no state: a handler
\* or timer of one instance leaves the state of the other as it is, and the
\* ids an instance gives its tests do not depend on what the other did
C21_InstancesShareNothing ==
    [][sim = "twin" =>
        /\ \A k \in Tw_instances :
            tw'.last # k => tw'.inst[k] = tw.inst[k]
        /\ \A k \in Tw_instances : Tw_idsAsAlone(k)']_vars

\* the second instance recorded its first test after the first instance had
\* recorded one
C21_Witness ==
    /\ sim = "twin" /\ op = "timer" /\ tw.last = 2
    /\ Len(tw.inst[1].tests) = 1
    /\ Len(tw.inst[2].tests) = 1

\* C25: the decision shown follows the current policy toggle: whenever
\* lastResult is not null, lastResult.allowed is what the rule gives for its
\* from and to under the current value of policyActive
C25_ResultFollowsToggle ==
    sim = "np" /\ np.lastResult # Np_noResult
        => np.lastResult.allowed
            = ~Np_isBlocked(np.policyActive, np.lastResult.from, np.lastResult.to)

\* a connection from the frontend to the database is shown as allowed while
\* the policy is active
C25_Witness ==
    /\ sim = "np" /\ op = "timer"
    /\ np.policyActive
    /\ np.lastResult = [allowed |-> TRUE, from |-> "frontend", to |-> "database"]

\* C24: a placement that is shown is the decision for the requests that are
\* selected now: whenever scheduled is not null it is the placement computed
\* for the current cpuReq and memReq
C24_PlacementIsForCurrentRequest ==
    sim = "sch" /\ sch.scheduled # Sch_noPlacement
        => sch.scheduled = Sch_placement(sch.cpuReq, sch.memReq)

\* node-1 is shown as the placement of a pod whose CPU request no node can hold
C24_Witness ==
    /\ sim = "sch" /\ op = "timer"
    /\ sch.scheduled = [nodeName |-> "node-1"]
    /\ sch.cpuReq = 8

\* the untainted nodes of the table with free CPU and free memory for the request
Sch_fitting(cpuReq, memReq) ==
    {i \in DOMAIN Sch_nodes :
        /\ Sch_nodes[i].totalCpu - Sch_nodes[i].usedCpu >= cpuReq
        /\ Sch_nodes[i].totalMemory - Sch_nodes[i].usedMemory >= memReq
        /\ Sch_nodes[i].taints = <<>>}

\* free CPU plus free memory of node i
Sch_free(i) ==
    (Sch_nodes[i].totalCpu - Sch_nodes[i].usedCpu)
        + (Sch_nodes[i].totalMemory - Sch_nodes[i].usedMemory)

\* C26: an evaluation of a request (cpuReq, memReq) for which some node fits
\* names a fitting untainted node of maximal free CPU + free memory, the
\* first such node of the table; with the built-in table the outcome is
\* node-1 exactly when cpuReq <= 3 and memReq <= 5, and Pending otherwise
C26_BestFit ==
    [][TimerFired /\ sim = "sch" /\ sch.isMounted
        => LET cpuReq == Sch_next.cpuReq
               memReq == Sch_next.memReq
               name == sch'.scheduled.nodeName
           IN  /\ Sch_fitting(cpuReq, memReq) # {}
                    => \E i \in Sch_fitting(cpuReq, memReq) :
                        /\ name = Sch_nodes[i].name
                        /\ \A j \in Sch_fitting(cpuReq, memReq) :
                            /\ Sch_free(j) <= Sch_free(i)
                            /\ Sch_free(j) = Sch_free(i) => i <= j
               /\ name = "node-1" <=> (cpuReq <= 3 /\ memReq <= 5)
               /\ name # "node-1" => name = ""]_vars

\* node-1 was chosen for a request that node-2 could hold as well
C26_Witness ==
    /\ sim = "sch" /\ op = "timer"
    /\ sch.cpuReq = 1 /\ sch.memReq = 2
    /\ sch.scheduled.nodeName = "node-1"
    /\ Cardinality(Sch_fitting(1, 2)) = 2

\* C29: whatever the order of Add traffic, Remove traffic and HPA Evaluate,
\* traffic changed while an evaluation is pending included, replicas stays
\* within 1..6 and cpu within 10..100, the event list never holds more than
\* 6 entries, and one evaluation changes replicas by at most 1 (no other
\* operation changes it)
C29_AutoscalerBounds ==
    [][sim = "hpa"
        => /\ hpa'.replicas >= 1 /\ hpa'.replicas <= 6
           /\ hpa'.cpu >= 10 /\ hpa'.cpu <= 100
           /\ Len(hpa'.events) <= 6
           /\ hpa'.replicas - hpa.replicas \in {-1, 0, 1}
           /\ hpa'.replicas # hpa.replicas => op' = "timer"]_vars

\* the seventh evaluation was recorded at the maximum of replicas with the
\* load at its ceiling, traffic having been added while it was pending
C29_Witness ==
    /\ sim = "hpa" /\ op = "timer"
    /\ hpa.replicas = 6 /\ hpa.cpu = 100
    /\ hpa.eventId = 7 /\ Len(hpa.events) = 6
    /\ hpa.events[1].type = "stable"

\* the sequence 0, 1, ..., k-1
Tf_firstSteps(k) == [j \in 1..k |-> j - 1]

\* nothing but the hint differs between the states t and u
Tf_onlyHintChanged(t, u) == [u EXCEPT !.hint = t.hint] = t

\* C30: the diagnostic order is enforced.  completedSteps is always
\* <<0, ..., k-1>> for some k; a click on a command other than the one
\* expected at currentStep, 'kubectl delete pod <name>' among them, changes
\* nothing but the hint; finished becomes true exactly by the click on the
\* last step's command at the last step; when finished, the handler of no
\* command changes the state; Reset and a change of scenario give step 0
\* with nothing completed and finished false
C30_DiagnosticOrder ==
    [][sim = "tf"
        => LET steps == SCENARIOS[tf.selectedScenario]
               last == Len(steps)
           IN
           /\ tf'.completedSteps = Tf_firstSteps(Len(tf'.completedSteps))
           /\ op' \in ALL_COMMANDS /\ op' # steps[tf.currentStep + 1]
                => Tf_onlyHintChanged(tf, tf')
           /\ op' = "kubectl delete pod <name>" => Tf_onlyHintChanged(tf, tf')
           /\ tf'.finished /\ ~tf.finished
                <=> op' = steps[last] /\ tf.currentStep = last - 1 /\ ~tf.finished
           /\ tf'.finished
                => \A command \in ALL_COMMANDS : handleCommandClick(tf', command) = tf'
           /\ op' \in {"resetState", "handleScenarioChange"}
                => /\ tf'.currentStep = 0 /\ tf'.completedSteps = <<>>
                   /\ ~tf'.finished]_vars

\* the fourth and last command of the not_responding scenario was clicked in
\* its turn and finished the scenario
C30_Witness ==
    /\ sim = "tf" /\ op = "kubectl get svc"
    /\ tf.selectedScenario = "not_responding"
    /\ tf.finished /\ tf.completedSteps = <<0, 1, 2, 3>>

\* a wrong command was answered with the hint that names the expected one,
\* at the second step, which stayed the current one
C30_WitnessHint ==
    /\ sim = "tf" /\ op = "kubectl get svc"
    /\ tf.currentStep = 1 /\ tf.completedSteps = <<0>>
    /\ tf.hint = [text |-> "Not quite. Try", expected |-> "kubectl describe pod <name>"]

\* pods of the rollout simulator in the given status
Ro_count(status) == Cardinality({k \in DOMAIN ro.pods : ro.pods[k].status = status})

\* C27: maxSurge 1 is honoured.  During a rollout or a rollback there are
\* never more than 5 pods (Running, Creating or Terminating), and a cycle
\* creates its new pod only when the pod the cycle before marked Terminating
\* has been removed
C27_MaxSurge ==
    sim = "rollout" => /\ Len(ro.pods) <= 5
                       /\ Ro_count("Creating") > 0 => Ro_count("Terminating") = 0

\* a new pod is being created while the old pod of the cycle before is
\* still terminating
C27_Witness ==
    /\ sim = "rollout" /\ op = "timer"
    /\ Len(ro.pods) = 6
    /\ Ro_count("Creating") = 1 /\ Ro_count("Terminating") = 1

\* the pod with the given id is Running
Ro_isRunning(id) ==
    \E k \in DOMAIN ro.pods : ro.pods[k].id = id /\ ro.pods[k].status = "Running"

\* C28: maxUnavailable 0 is honoured.  The number of Running pods never
\* drops below 4, and a step that marks an old pod Terminating is the
\* terminate callback of a cycle whose new pod is Running
C28_MaxUnavailable ==
    [][sim = "rollout"
        => /\ Ro_count("Running")' >= 4
           /\ Ro_count("Terminating")' > Ro_count("Terminating")
                => Ro_due("C") /\ Ro_isRunning(Ro_next.newPodId)]_vars

\* an old pod is Terminating next to 4 Running pods, the new pod of its
\* cycle among them
C28_Witness ==
    /\ sim = "rollout" /\ op = "timer"
    /\ Ro_count("Terminating") = 1 /\ Ro_count("Running") = 4
    /\ Ro_isRunning(<<"v2", 1>>)
    /\ ro.pods[1].status = "Terminating"

\* pods of the desired-state simulator in the given status
Dss_count(status) ==
    Cardinality({k \in DOMAIN dss.pods : dss.pods[k].status = status})

\* pending timers of the given kind
Dss_pending(kind) ==
    Cardinality({j \in DOMAIN dss.timeoutIdsRef : dss.timeoutIdsRef[j].kind = kind})

\* C23: at most one reconcile pass is scheduled at any time, and the
\* controller works on one pod at a time: no pod is created or terminated
\* while another is still creating or terminating
C23_OnePodAtATime ==
    sim = "dss" => /\ Dss_pending("reconcile") <= 1
                   /\ Dss_count("creating") + Dss_count("terminating") <= 1

\* the controller created a second pod while the first was still creating
C23_Witness ==
    /\ sim = "dss" /\ op = "timer"
    /\ dss.clicks = 0
    /\ Dss_count("creating") = 2

\* two reconcile passes are scheduled at once
C23_WitnessTwoPasses == sim = "dss" /\ Dss_pending("reconcile") = 2

\* the settled state: as many active pods as desired, and every pod running
Dss_settled ==
    /\ Dss_runningCount(dss.pods) = dss.desired
    /\ \A k \in DOMAIN dss.pods : dss.pods[k].status = "running"

\* C22: the simulator settles.  Once it has reached the state where the
\* active pods are as many as desired and none is creating, terminating or
\* crashed, it stays there as long as the user does nothing: no timer takes
\* it out of that state, whatever clicks came before
C22_SettledStays ==
    [][sim = "dss" /\ Dss_settled /\ op' = "timer" => Dss_settled']_vars

\* desired was lowered from 3 to 2 and two pods were running, when a
\* reconcile pass of the time before the click created a pod
C22_Witness ==
    /\ sim = "dss" /\ op = "timer"
    /\ dss.clicks = 1 /\ dss.desired = 2
    /\ Dss_count("running") = 2 /\ Dss_count("creating") = 1
    /\ Len(dss.pods) = 3

---------------------------------------------------------------------------
(* Specifications *)

InitOthers == op = "init" /\ Ro_Init /\ Cpj_Init /\ Np_Init /\ Cae_Init /\ Sr_Init /\ Dss_Init
    /\ Sch_Init /\ Tw_Init /\ Hpa_Init /\ Tf_Init

InitAll == InitOthers /\ Ps_Init

InitRollout == sim = "rollout" /\ InitAll

SpecRollout == InitRollout /\ [][NextRollout]_vars

InitCpj == sim = "cpj" /\ InitAll

SpecCpj == InitCpj /\ [][NextCpj]_vars

\* the event loop runs a timer's callback once the timer is due
SpecCpjFair ==
    /\ SpecCpj
    /\ WF_vars(Cpj_advanceTimer)
    /\ WF_vars(Cpj_sleep480Timer)
    /\ WF_vars(Cpj_sleep1000Timer)

InitTwin == sim = "twin" /\ InitAll

SpecTwin == InitTwin /\ [][NextTwin]_vars

InitNp == sim = "np" /\ InitAll

SpecNp == InitNp /\ [][NextNp]_vars

InitSr == sim = "sr" /\ InitAll

SpecSr == InitSr /\ [][NextSr]_vars

InitDss == sim = "dss" /\ InitAll

SpecDss == InitDss /\ [][NextDss]_vars

InitSch == sim = "sch" /\ InitAll

SpecSch == InitSch /\ [][NextSch]_vars

\* the progress store of a page opened over progress the store saved
InitStore == sim = "store" /\ InitOthers /\ \E blob \in Ps_savedBlobs : ps = Ps_opened(blob)

SpecStore == InitStore /\ [][NextStore]_vars

\* the progress store of a page opened over any localStorage
InitLoad ==
    /\ sim = "store" /\ InitOthers
    /\ \E blob \in Ps_savedBlobs \cup Ps_foreignBlobs : ps = Ps_opened(blob)

SpecLoad == InitLoad /\ [][NextLoad]_vars

InitCae == sim = "cae" /\ InitAll

SpecCae == InitCae /\ [][NextCae]_vars

\* the simulators with a start operation
\* the two components with a step cursor
InitCursor == sim \in {"cpj", "cae"} /\ InitAll

NextCursor == NextCpj \/ NextCae

SpecCursor == InitCursor /\ [][NextCursor]_vars

InitStart == sim \in {"np", "sr", "cpj"} /\ InitAll

NextStart == NextNp \/ NextSr \/ NextCpj

SpecStart == InitStart /\ [][NextStart]_vars

\* the simulators with a Reset
InitReset == sim \in {"cpj", "rollout"} /\ InitAll

NextReset == NextCpj \/ NextRollout

SpecReset == InitReset /\ [][NextReset]_vars

\* the simulators whose teardown clears nested timers
InitTeardown == sim \in {"rollout", "dss", "sr"} /\ InitAll

NextTeardown == NextRollout \/ NextDss \/ NextSr

SpecTeardown == InitTeardown /\ [][NextTeardown]_vars


InitHpa == sim = "hpa" /\ InitAll

SpecHpa == InitHpa /\ [][NextHpa]_vars

\* the simulators of the page Layer7Reliability
InitLayer7 == sim \in {"rollout", "tf"} /\ InitAll

NextLayer7 == NextRollout \/ NextTf

SpecLayer7 == InitLayer7 /\ [][NextLayer7]_vars

=============================================================================
